---- MODULE Spec2Model ----
(***************************************************************************)
(* CustomSharedPtr / CustomWeakPtr (src/src/task1_weak_ptr/                *)
(* custom_weak_ptr.hpp) as a state machine.  Every access to one of the    *)
(* two shared atomic counters, every delete of a payload and every delete  *)
(* of a counter pair is one step of the thread that performs it, so that   *)
(* the interleavings of the destructors, the assignments and lock() are    *)
(* those of the threads of the program.                                    *)
(*                                                                         *)
(* A handle object is its two fields <<ptr_, ref_count_>> (weak_count_ is  *)
(* always the counter allocated together with ref_count_, so one id names  *)
(* the pair).  The objects that exist are kept as a bag of such field      *)
(* pairs: which thread holds an object between two operations is not       *)
(* recorded, because handing an object to another thread touches no        *)
(* counter.  The object an operation is changing is held in arg[t].        *)
(* Objects whose fields are all null (default-constructed observers,       *)
(* moved-from owners) are not kept in the bags: any number of them exists  *)
(* at any time, and every operation may be applied to one.                 *)
(***************************************************************************)
EXTENDS Integers, FiniteSets, Sequences, TLC

\* ------------------------------------------------------------------ bounds
NumThreads == 2
MaxBlocks == 2
MaxStrong == 2
MaxWeak == 2
MaxDeletes == 2
MaxIter == 2
MaxLocals == 3
MaxLen == 5
MaxElem == 2
MaxIterations == 4
MaxThreadCount == 3
MaxText == 2

Threads == 1..NumThreads
\* The program that resets its owner allocates one pair more.
MaxResetBlocks == MaxBlocks + 1
Blocks == 1..MaxResetBlocks

\* nullptr
Null == 0
\* the values a payload is constructed with (new int(v))
Values == {10}
\* "no payload": the counter pair was made by CustomSharedPtr(nullptr)
NoVal == -1
\* what a read of a counter in freed memory may return
Garbage == {0, 1}

\* <<ptr_, ref_count_>>
Kinds == {k \in (0..MaxBlocks) \X (0..MaxBlocks) : k[1] = Null \/ k[1] = k[2]}
Empty == <<Null, Null>>
Ptr(k) == k[1]
Blk(k) == k[2]

VARIABLES
    nblk,   \* number of counter pairs allocated so far (ids 1..nblk)
    ref,    \* ref[b]:  *ref_count_  of counter pair b
    weak,   \* weak[b]: *weak_count_ of counter pair b
    frees,  \* frees[b]: how many times the pair b was deleted (up to MaxDeletes)
    orig,   \* orig[b]: the value of the payload allocated with b, or NoVal
    pdel,   \* pdel[b]: how many times that payload was deleted (up to MaxDeletes)
    uaf,    \* a counter of a deleted pair was read or written
    sh,     \* sh[k]: number of CustomSharedPtr objects with fields k
    wh,     \* wh[k]: number of CustomWeakPtr objects with fields k
    pc,     \* pc[t]: where thread t is inside the operation it runs
    arg,    \* arg[t]: the objects and the local int of that operation
    iter,   \* iter[t]: loop counter of the stress test's worker t
    loc,    \* loc[i]: the i-th named object of a single-threaded program
    op,     \* the last operation of that program: <<name, object, other>>
    input,  \* the vector erase_every_second_* was called with
    vec,    \* vec: that vector as the function has changed it so far
    idx,    \* the loop variable i of the function
    epc,    \* where the function is: "none" (not called), a loop, or "done"
    oob,    \* vec.erase was called with a position outside the vector
    pos,    \* the second position of the function: it, new_end or write_pos
    keep,   \* the flag "keep" the predicate of remove_if captures
    method, \* which erase_every_second_* function was called
    impl,         \* which benchmark function was called, or "none"
    iterations,   \* its parameter iterations (config.iterations)
    thread_count, \* its parameter thread_count (config.threads)
    bpc,          \* where the calling thread is inside it
    spawned,      \* the loop variable t of the loop that creates the threads
    joined,       \* how many threads the join loop has joined
    quota,        \* quota[t]: the iteration count worker t captured
    done,         \* done[t]: the loop variable i of worker t
    stage,        \* stage[t]: the objects alive in worker t's loop body
    endpoint,     \* the /benchmark/ route of the request, or "none"
    params,       \* params[key]: the text of the query parameter, or Absent
    spc,          \* where process_request is
    local,        \* local[key]: what get_param_size returned for the key
    status,       \* the status code of the response, 0 before it is made
    runs,         \* how many benchmark functions the request has run
    saves         \* how many times the request has called save_result

vars == <<nblk, ref, weak, frees, orig, pdel, uaf, sh, wh, pc, arg, iter, loc, op,
          input, vec, idx, epc, oob, pos, keep, method,
          impl, iterations, thread_count, bpc, spawned, joined, quota, done, stage,
          endpoint, params, spc, local, status, runs, saves>>

\* The state of the vector functions, and their not being called.
task2 == <<input, vec, idx, epc, oob, pos, keep, method>>
NoErase ==
    /\ input = <<>> /\ vec = <<>> /\ idx = 0 /\ epc = "none" /\ oob = FALSE
    /\ pos = 0 /\ keep = TRUE /\ method = "none"

\* The state of the benchmark functions, and their not being called.
Workers == 1..MaxThreadCount
bench == <<impl, iterations, thread_count, bpc, spawned, joined, quota, done, stage>>
NoBench ==
    /\ impl = "none" /\ iterations = 0 /\ thread_count = 0 /\ bpc = "none"
    /\ spawned = 0 /\ joined = 0
    /\ quota = [t \in Workers |-> 0]
    /\ done = [t \in Workers |-> 0]
    /\ stage = [t \in Workers |-> "none"]

\* The state of the HTTP session, and no request having arrived.
Keys == {"iterations", "threads", "size", "lookups"}
Absent == <<"absent">>
server == <<endpoint, params, spc, local, status, runs, saves>>
NoServer ==
    /\ endpoint = "none" /\ params = [k \in Keys |-> Absent] /\ spc = "none"
    /\ local = [k \in Keys |-> 0] /\ status = 0 /\ runs = 0 /\ saves = 0

heap == <<nblk, ref, weak, frees, orig, pdel, uaf>>

NoArg == [h |-> Empty, src |-> Empty, n |-> 0]

\* The named objects of a single-threaded program: not constructed (or
\* destroyed), a CustomSharedPtr or a CustomWeakPtr with fields k.
Locals == 1..MaxLocals
NoObj == [kind |-> "none", k |-> Empty]
NoOp == <<"none", 0, 0>>

RECURSIVE SumOver(_, _)
SumOver(f, S) == IF S = {} THEN 0
                 ELSE LET x == CHOOSE y \in S : TRUE IN f[x] + SumOver(f, S \ {x})
Size(bag) == SumOver(bag, Kinds)
Add(bag, k) == IF k = Empty THEN bag ELSE [bag EXCEPT ![k] = @ + 1]
Rem(bag, k) == IF k = Empty THEN bag ELSE [bag EXCEPT ![k] = @ - 1]

\* The heap is corrupt: a counter of a deleted pair was accessed, or a pair was
\* deleted twice.  The running operations go on, and the objects that are left
\* are still destroyed, with every value the freed memory may hold; the
\* client makes no new object and begins no other operation on a corrupt heap
\* (a bound of the model, which keeps the consequences of the corruption that
\* the destructors show).
Crashed == uaf \/ \E b \in Blocks : frees[b] > 1

\* Thread t is between two operations.
Idle(t) == pc[t] = "idle"
SAssignPcs == {"sa_del", "sa_wload", "sa_free", "sa_adopt"}
WAssignPcs == {"wa_rload", "wa_free", "wa_adopt"}
LockPcs == {"lk_cas", "lk_load", "lk_fail"}

\* Objects some thread is reading for the whole of a running operation: the
\* source of an assignment, the observer of a lock().
SReaders(k) == {t \in Threads : pc[t] \in SAssignPcs /\ arg[t].src = k}
WReaders(k) == {t \in Threads : pc[t] \in WAssignPcs \cup LockPcs /\ arg[t].src = k}

\* An object may be read by any thread while no thread changes it, and changed
\* by one thread while no other thread uses it (the handle's own fields are not
\* atomic: anything else is outside the class's contract).  The readers of
\* fields k may all read one object, so a second one is needed to change one.
SReadable(k) == k = Empty \/ sh[k] > 0
WReadable(k) == k = Empty \/ wh[k] > 0
SMutable(k) == k = Empty \/ sh[k] > (IF SReaders(k) = {} THEN 0 ELSE 1)
WMutable(k) == k = Empty \/ wh[k] > (IF WReaders(k) = {} THEN 0 ELSE 1)
\* Two distinct objects, the first changeable and the second readable.
STwo(d, s) == SMutable(d) /\ SReadable(s) /\ (d = s /\ d # Empty => sh[d] > 1)
WTwo(d, s) == WMutable(d) /\ WReadable(s) /\ (d = s /\ d # Empty => wh[d] > 1)

\* Room for one more object (a bound of the model, not of the code); a running
\* lock() holds room for the object it returns.
Locking == {t \in Threads : pc[t] \in LockPcs}
Adopting == {t \in Threads : pc[t] \in SAssignPcs /\ Blk(arg[t].src) # Null}
WAdopting == {t \in Threads : pc[t] \in WAssignPcs /\ Blk(arg[t].src) # Null}
SRoom == Size(sh) + Cardinality(Locking \cup Adopting) < MaxStrong
WRoom == Size(wh) + Cardinality(WAdopting) < MaxWeak
\* Room for one more object with fields k.
SRoomFor(k) == k = Empty \/ SRoom
WRoomFor(k) == k = Empty \/ WRoom
\* Room in counter b for one more increment, those that running operations
\* will still make counted (a bound of the model: an object with a null ptr_
\* is never decremented by its destructor, so its counter can grow for ever).
RefRoom(b) == ref[b] + Cardinality({t \in Locking \cup Adopting : Blk(arg[t].src) = b}) < MaxStrong
WeakRoom(b) == weak[b] + Cardinality({t \in WAdopting : Blk(arg[t].src) = b}) < MaxWeak

\* Accesses to counter c (ref or weak) of pair b.  A counter of a deleted pair
\* is freed memory: a read of it finds any value, a write to it is lost.
\* std::atomic<int>::load()
LoadAny(c, b) == Garbage
Load(c, b) == IF frees[b] > 0 THEN Garbage ELSE {c[b]}
\* the values "--(*c)" may return
DecrementedTwice(c, b) == IF frees[b] > 0 THEN Garbage ELSE {c[b] - 2}
Decremented(c, b) == IF frees[b] > 0 THEN Garbage ELSE {c[b] - 1}
\* c after a write of x
Store(c, b, x) == IF frees[b] > 0 THEN c ELSE [c EXCEPT ![b] = x]
\* uaf after an access to a counter of pair b
Touch(b) == uaf \/ frees[b] > 0
\* One more delete, counted up to MaxDeletes.
Deleted(f, b) == [f EXCEPT ![b] = IF @ < MaxDeletes THEN @ + 1 ELSE @]

Init ==
    /\ nblk = 0
    /\ ref = [b \in Blocks |-> 0]
    /\ weak = [b \in Blocks |-> 0]
    /\ frees = [b \in Blocks |-> 0]
    /\ orig = [b \in Blocks |-> NoVal]
    /\ pdel = [b \in Blocks |-> 0]
    /\ uaf = FALSE
    /\ sh = [k \in Kinds |-> 0]
    /\ wh = [k \in Kinds |-> 0]
    /\ pc = [t \in Threads |-> "idle"]
    /\ arg = [t \in Threads |-> NoArg]
    /\ iter = [t \in Threads |-> 0]
    /\ loc = [i \in Locals |-> NoObj]
    /\ op = NoOp
    /\ NoErase
    /\ NoBench
    /\ NoServer

Done(t) ==
    /\ pc' = [pc EXCEPT ![t] = "idle"]
    /\ arg' = [arg EXCEPT ![t] = NoArg]

Goto(t, l) == pc' = [pc EXCEPT ![t] = l]

\* The old counters are released: on to the adoption of other's fields, which
\* is the end of the assignment when other's counters are null (no counter is
\* touched then).
ToAdopt(t, l) ==
    IF Blk(arg[t].src) = Null THEN Done(t)
    ELSE Goto(t, l) /\ UNCHANGED arg

\* The tests the code makes on the values it reads from the counters.
\* "if(count == 0)" after "--(*ref_count_)"
LastOwnerOrOne(count) == count <= 1
LastOwner(count) == count = 0
\* "weak_count_->load() == 0"
SomeObserver(x) == x > 0
NoObserver(x) == x = 0
\* "count == 0" after "--(*weak_count_)"
LastObserver(count) == count = 0
\* "ref_count_->load() == 0"
AnyOwners(x) == TRUE
NoOwner(x) == x = 0
\* "while(expected > 0)"
AliveOrZero(expected) == expected >= 0
AliveAboveOne(expected) == expected > 1
Alive(expected) == expected > 0
\* compare_exchange_weak(expected, expected + 1) finds expected in the counter
CasBlind(cur, expected) == TRUE
CasOffByOne(cur, expected) == cur = expected + 1
CasMatches(cur, expected) == cur = expected
\* "expected + 1", the value compare_exchange_weak writes
DesiredTwice(expected) == expected + 2
Desired(expected) == expected + 1

\* -------------------------------------------------------- CustomSharedPtr

\* explicit CustomSharedPtr(T* ptr = nullptr), the allocation of its counters:
\* ref_count_(new std::atomic<int>(1)), weak_count_(new std::atomic<int>(0))
NewBlockIn(v, n) ==
    /\ nblk < n
    /\ nblk' = nblk + 1
    /\ ref' = [ref EXCEPT ![nblk + 1] = 1]
    /\ weak' = [weak EXCEPT ![nblk + 1] = 0]
    /\ orig' = [orig EXCEPT ![nblk + 1] = v]
    /\ UNCHANGED <<frees, pdel>>

NewBlock(v) == NewBlockIn(v, MaxBlocks)

\* The fields of the object CustomSharedPtr(p) makes when pair nblk + 1 is
\* allocated for it: p is "new int(v)", or nullptr when v = NoVal.
Fresh(v) == <<IF v = NoVal THEN Null ELSE nblk + 1, nblk + 1>>

SharedCtor(t, v) ==
    /\ Idle(t)
    /\ ~Crashed
    /\ UNCHANGED <<iter, loc, op, task2, bench, server>>
    /\ SRoom
    /\ NewBlock(v)
    /\ sh' = Add(sh, Fresh(v))
    /\ UNCHANGED <<uaf, wh, pc, arg>>

\* CustomSharedPtr(const CustomSharedPtr& other)
SharedCopyCtor(t, k) ==
    /\ Idle(t)
    /\ ~Crashed
    /\ UNCHANGED <<iter, loc, op, task2, bench, server>>
    /\ SRoomFor(k)
    /\ SReadable(k)
    /\ sh' = Add(sh, k)
    /\ IF Blk(k) # Null
          THEN /\ RefRoom(Blk(k))
               /\ ref' = Store(ref, Blk(k), ref[Blk(k)] + 1)
               /\ uaf' = Touch(Blk(k))
          ELSE UNCHANGED <<ref, uaf>>
    /\ UNCHANGED <<nblk, weak, frees, orig, pdel, wh, pc, arg>>

\* CustomSharedPtr(CustomSharedPtr&& other) noexcept
SharedMoveCtor(t, k) ==
    /\ Idle(t)
    /\ ~Crashed
    /\ UNCHANGED <<iter, loc, op, task2, bench, server>>
    /\ SMutable(k)
    \* the new object takes the fields; other's fields are set to nullptr
    /\ sh' = Add(Add(Rem(sh, k), k), Empty)
    /\ UNCHANGED <<heap, wh, pc, arg>>

\* ~CustomSharedPtr(): the guard and "int count= --(*ref_count_);"
SharedRelease(t, k) ==
    /\ Idle(t)
    /\ SMutable(k)
    /\ sh' = Rem(sh, k)
    /\ IF Ptr(k) # Null /\ Blk(k) # Null
          THEN /\ uaf' = Touch(Blk(k))
               /\ \E count \in Decremented(ref, Blk(k)) :
                     /\ ref' = Store(ref, Blk(k), count)
                     /\ IF LastOwner(count)
                           THEN /\ Goto(t, "sd_del")
                                /\ arg' = [arg EXCEPT ![t] = [NoArg EXCEPT !.h = k]]
                           ELSE UNCHANGED <<pc, arg>>
          ELSE UNCHANGED <<ref, uaf, pc, arg>>
    /\ UNCHANGED <<nblk, weak, frees, orig, pdel, wh>>

SharedDtorDec(t, k) == SharedRelease(t, k) /\ UNCHANGED <<iter, loc, op, task2, bench, server>>

\* "delete ptr_; ptr_= nullptr;"
SharedDtorDelete(t) ==
    /\ pc[t] = "sd_del"
    /\ UNCHANGED <<iter, loc, op, task2, bench, server>>
    /\ pdel' = Deleted(pdel, Ptr(arg[t].h))
    /\ arg' = [arg EXCEPT ![t].h = <<Null, Blk(arg[t].h)>>]
    /\ Goto(t, "sd_wload")
    /\ UNCHANGED <<nblk, ref, weak, frees, orig, uaf, sh, wh>>

\* "if(weak_count_->load() == 0)"
SharedDtorWeakLoad(t) ==
    /\ pc[t] = "sd_wload"
    /\ UNCHANGED <<iter, loc, op, task2, bench, server>>
    /\ \E x \in Load(weak, Blk(arg[t].h)) :
          IF NoObserver(x) THEN Goto(t, "sd_free") /\ UNCHANGED arg
                   ELSE Done(t)
    /\ uaf' = Touch(Blk(arg[t].h))
    /\ UNCHANGED <<nblk, ref, weak, frees, orig, pdel, sh, wh>>

\* "delete ref_count_; delete weak_count_;"
SharedDtorFree(t) ==
    /\ pc[t] = "sd_free"
    /\ UNCHANGED <<iter, loc, op, task2, bench, server>>
    /\ frees' = Deleted(frees, Blk(arg[t].h))
    /\ Done(t)
    /\ UNCHANGED <<nblk, ref, weak, orig, pdel, uaf, sh, wh>>

\* operator=(const CustomSharedPtr& other) with this == &other
SharedAssignSelf(t, k) ==
    /\ Idle(t)
    /\ ~Crashed
    /\ SMutable(k)
    /\ UNCHANGED vars

\* operator=(const CustomSharedPtr& other), this != &other: the guard
\* ref_count_ != nullptr and "int count= --(*ref_count_);".  With a null
\* ref_count_ nothing is released, and the step is the adoption below.
SharedAssignDec(t, d, s) ==
    /\ Idle(t)
    /\ ~Crashed
    /\ UNCHANGED <<iter, loc, op, task2, bench, server>>
    /\ STwo(d, s)
    /\ d = Empty => SRoomFor(s)
    /\ Blk(s) # Null /\ Blk(s) # Blk(d) => RefRoom(Blk(s))
    /\ IF Blk(d) # Null
          THEN /\ sh' = Rem(sh, d)
               /\ uaf' = Touch(Blk(d))
               /\ \E count \in Decremented(ref, Blk(d)) :
                     /\ ref' = Store(ref, Blk(d), count)
                     /\ IF LastOwner(count)
                           THEN /\ Goto(t, "sa_del")
                                /\ arg' = [arg EXCEPT ![t] = [NoArg EXCEPT !.h = d, !.src = s]]
                           ELSE IF Blk(s) # Null
                           THEN /\ Goto(t, "sa_adopt")
                                /\ arg' = [arg EXCEPT ![t] = [NoArg EXCEPT !.h = d, !.src = s]]
                           ELSE UNCHANGED <<pc, arg>>
          ELSE /\ sh' = Add(Rem(sh, d), s)
               /\ IF Blk(s) # Null
                     THEN /\ ref' = Store(ref, Blk(s), ref[Blk(s)] + 1)
                          /\ uaf' = Touch(Blk(s))
                     ELSE UNCHANGED <<ref, uaf>>
               /\ UNCHANGED <<pc, arg>>
    /\ UNCHANGED <<nblk, weak, frees, orig, pdel, wh>>

\* "delete ptr_;" (of a null pointer: no effect)
SharedAssignDelete(t) ==
    /\ pc[t] = "sa_del"
    /\ UNCHANGED <<iter, loc, op, task2, bench, server>>
    /\ IF Ptr(arg[t].h) # Null
          THEN pdel' = Deleted(pdel, Ptr(arg[t].h))
          ELSE UNCHANGED pdel
    /\ Goto(t, "sa_wload")
    /\ UNCHANGED <<nblk, ref, weak, frees, orig, uaf, sh, wh, arg>>

\* "if(weak_count_->load() == 0)"
SharedAssignWeakLoad(t) ==
    /\ pc[t] = "sa_wload"
    /\ UNCHANGED <<iter, loc, op, task2, bench, server>>
    /\ \E x \in Load(weak, Blk(arg[t].h)) :
          IF NoObserver(x) THEN Goto(t, "sa_free") /\ UNCHANGED arg
                           ELSE ToAdopt(t, "sa_adopt")
    /\ uaf' = Touch(Blk(arg[t].h))
    /\ UNCHANGED <<nblk, ref, weak, frees, orig, pdel, sh, wh>>

\* "delete ref_count_; delete weak_count_;"
SharedAssignFree(t) ==
    /\ pc[t] = "sa_free"
    /\ UNCHANGED <<iter, loc, op, task2, bench, server>>
    /\ frees' = Deleted(frees, Blk(arg[t].h))
    /\ ToAdopt(t, "sa_adopt")
    /\ UNCHANGED <<nblk, ref, weak, orig, pdel, uaf, sh, wh>>

\* "ptr_= other.ptr_; ... if(ref_count_ != nullptr) ++(*ref_count_);"
SharedAssignAdopt(t) ==
    /\ pc[t] = "sa_adopt"
    /\ UNCHANGED <<iter, loc, op, task2, bench, server>>
    /\ sh' = Add(sh, arg[t].src)
    /\ IF Blk(arg[t].src) # Null
          THEN /\ ref' = Store(ref, Blk(arg[t].src), ref[Blk(arg[t].src)] + 1)
               /\ uaf' = Touch(Blk(arg[t].src))
          ELSE UNCHANGED <<ref, uaf>>
    /\ Done(t)
    /\ UNCHANGED <<nblk, weak, frees, orig, pdel, wh>>

\* ---------------------------------------------------------- CustomWeakPtr

\* CustomWeakPtr()
WeakDefaultCtor(t) ==
    /\ Idle(t)
    /\ ~Crashed
    /\ UNCHANGED <<iter, loc, op, task2, bench, server>>
    /\ WRoomFor(Empty)
    /\ wh' = Add(wh, Empty)
    /\ UNCHANGED <<heap, sh, pc, arg>>

\* explicit CustomWeakPtr(const CustomSharedPtr<T>& shared), and
\* CustomWeakPtr(const CustomWeakPtr& other): both copy the three fields
\* and increment *weak_count_ when it is not null.
WeakAliasUncounted(k) ==
    /\ wh' = Add(wh, k)
    /\ UNCHANGED <<nblk, ref, weak, uaf, frees, orig, pdel, sh, pc, arg>>

WeakAlias(k) ==
    /\ wh' = Add(wh, k)
    /\ IF Blk(k) # Null
          THEN /\ WeakRoom(Blk(k))
               /\ weak' = Store(weak, Blk(k), weak[Blk(k)] + 1)
               /\ uaf' = Touch(Blk(k))
          ELSE UNCHANGED <<weak, uaf>>
    /\ UNCHANGED <<nblk, ref, frees, orig, pdel, sh, pc, arg>>

WeakFromShared(t, k) ==
    /\ Idle(t)
    /\ ~Crashed
    /\ UNCHANGED <<iter, loc, op, task2, bench, server>>
    /\ WRoomFor(k)
    /\ SReadable(k)
    /\ WeakAlias(k)

WeakCopyCtor(t, k) ==
    /\ Idle(t)
    /\ ~Crashed
    /\ UNCHANGED <<iter, loc, op, task2, bench, server>>
    /\ WRoomFor(k)
    /\ WReadable(k)
    /\ WeakAlias(k)

\* ~CustomWeakPtr(): "int count= --(*weak_count_);" and count == 0 &&
\* ref_count_ != nullptr
WeakDtorDec(t, k) ==
    /\ Idle(t)
    /\ UNCHANGED <<iter, loc, op, task2, bench, server>>
    /\ WMutable(k)
    /\ wh' = Rem(wh, k)
    /\ IF Blk(k) # Null
          THEN /\ uaf' = Touch(Blk(k))
               /\ \E count \in Decremented(weak, Blk(k)) :
                     /\ weak' = Store(weak, Blk(k), count)
                     /\ IF LastObserver(count)
                           THEN /\ Goto(t, "wd_rload")
                                /\ arg' = [arg EXCEPT ![t] = [NoArg EXCEPT !.h = k]]
                           ELSE UNCHANGED <<pc, arg>>
          ELSE UNCHANGED <<weak, uaf, pc, arg>>
    /\ UNCHANGED <<nblk, ref, frees, orig, pdel, sh>>

\* "ref_count_->load() == 0"
WeakDtorRefLoad(t) ==
    /\ pc[t] = "wd_rload"
    /\ UNCHANGED <<iter, loc, op, task2, bench, server>>
    /\ \E x \in Load(ref, Blk(arg[t].h)) :
          IF NoOwner(x) THEN Goto(t, "wd_free") /\ UNCHANGED arg
                   ELSE Done(t)
    /\ uaf' = Touch(Blk(arg[t].h))
    /\ UNCHANGED <<nblk, ref, weak, frees, orig, pdel, sh, wh>>

\* "delete ref_count_; delete weak_count_;"
WeakDtorFree(t) ==
    /\ pc[t] = "wd_free"
    /\ UNCHANGED <<iter, loc, op, task2, bench, server>>
    /\ frees' = Deleted(frees, Blk(arg[t].h))
    /\ Done(t)
    /\ UNCHANGED <<nblk, ref, weak, orig, pdel, uaf, sh, wh>>

\* operator=(const CustomWeakPtr& other) with this == &other
WeakAssignSelf(t, k) ==
    /\ Idle(t)
    /\ ~Crashed
    /\ WMutable(k)
    /\ UNCHANGED vars

\* operator=(const CustomWeakPtr& other), this != &other: the guard
\* weak_count_ != nullptr and "int count= --(*weak_count_);".  With a null
\* weak_count_ nothing is released, and the step is the adoption below.
WeakAssignDec(t, d, s) ==
    /\ Idle(t)
    /\ ~Crashed
    /\ UNCHANGED <<iter, loc, op, task2, bench, server>>
    /\ WTwo(d, s)
    /\ d = Empty => WRoomFor(s)
    /\ Blk(s) # Null /\ Blk(s) # Blk(d) => WeakRoom(Blk(s))
    /\ IF Blk(d) # Null
          THEN /\ wh' = Rem(wh, d)
               /\ uaf' = Touch(Blk(d))
               /\ \E count \in Decremented(weak, Blk(d)) :
                     /\ weak' = Store(weak, Blk(d), count)
                     /\ IF LastObserver(count)
                           THEN /\ Goto(t, "wa_rload")
                                /\ arg' = [arg EXCEPT ![t] = [NoArg EXCEPT !.h = d, !.src = s]]
                           ELSE IF Blk(s) # Null
                           THEN /\ Goto(t, "wa_adopt")
                                /\ arg' = [arg EXCEPT ![t] = [NoArg EXCEPT !.h = d, !.src = s]]
                           ELSE UNCHANGED <<pc, arg>>
          ELSE /\ wh' = Add(Rem(wh, d), s)
               /\ IF Blk(s) # Null
                     THEN /\ weak' = Store(weak, Blk(s), weak[Blk(s)] + 1)
                          /\ uaf' = Touch(Blk(s))
                     ELSE UNCHANGED <<weak, uaf>>
               /\ UNCHANGED <<pc, arg>>
    /\ UNCHANGED <<nblk, ref, frees, orig, pdel, sh>>

\* "ref_count_->load() == 0"
WeakAssignRefLoad(t) ==
    /\ pc[t] = "wa_rload"
    /\ UNCHANGED <<iter, loc, op, task2, bench, server>>
    /\ \E x \in Load(ref, Blk(arg[t].h)) :
          IF NoOwner(x) THEN Goto(t, "wa_free") /\ UNCHANGED arg
                        ELSE ToAdopt(t, "wa_adopt")
    /\ uaf' = Touch(Blk(arg[t].h))
    /\ UNCHANGED <<nblk, ref, weak, frees, orig, pdel, sh, wh>>

\* "delete ref_count_; delete weak_count_;"
WeakAssignFree(t) ==
    /\ pc[t] = "wa_free"
    /\ UNCHANGED <<iter, loc, op, task2, bench, server>>
    /\ frees' = Deleted(frees, Blk(arg[t].h))
    /\ ToAdopt(t, "wa_adopt")
    /\ UNCHANGED <<nblk, ref, weak, orig, pdel, uaf, sh, wh>>

\* "ptr_= other.ptr_; ... if(weak_count_ != nullptr) ++(*weak_count_);"
WeakAssignAdopt(t) ==
    /\ pc[t] = "wa_adopt"
    /\ UNCHANGED <<iter, loc, op, task2, bench, server>>
    /\ wh' = Add(wh, arg[t].src)
    /\ IF Blk(arg[t].src) # Null
          THEN /\ weak' = Store(weak, Blk(arg[t].src), weak[Blk(arg[t].src)] + 1)
               /\ uaf' = Touch(Blk(arg[t].src))
          ELSE UNCHANGED <<weak, uaf>>
    /\ Done(t)
    /\ UNCHANGED <<nblk, ref, frees, orig, pdel, sh>>

\* ------------------------------------------------------------------ lock()

\* lock(): the null test and "int expected= ref_count_->load();", up to the
\* first test of the loop
LockLoad(t, k) ==
    /\ Idle(t)
    /\ ~Crashed
    /\ WReadable(k)
    /\ IF Blk(k) = Null
          THEN Goto(t, "lk_fail") /\ UNCHANGED uaf
               /\ arg' = [arg EXCEPT ![t] = [NoArg EXCEPT !.src = k]]
          ELSE /\ uaf' = Touch(Blk(k))
               /\ \E x \in Load(ref, Blk(k)) :
                     /\ arg' = [arg EXCEPT ![t] = [NoArg EXCEPT !.src = k, !.n = x]]
                     /\ IF Alive(x) THEN Goto(t, "lk_cas") ELSE Goto(t, "lk_fail")
    /\ UNCHANGED <<nblk, ref, weak, frees, orig, pdel, sh, wh>>

LockBegin(t, k) ==
    /\ SRoom
    /\ Blk(k) # Null => RefRoom(Blk(k))
    /\ LockLoad(t, k)
    /\ UNCHANGED <<iter, loc, op, task2, bench, server>>

\* "ref_count_->compare_exchange_weak(expected, expected + 1)": it succeeds
\* only when the counter holds expected, and may fail even then.
LockCas(t) ==
    /\ pc[t] = "lk_cas"
    /\ UNCHANGED <<iter, loc, op, task2, bench, server>>
    /\ LET k == arg[t].src
           b == Blk(arg[t].src)
       IN \/ /\ \E cur \in Load(ref, b) : CasMatches(cur, arg[t].n)
             /\ ref' = Store(ref, b, Desired(arg[t].n))
             \* "return CustomSharedPtr<T>(ptr_, ref_count_, weak_count_);"
             /\ sh' = Add(sh, k)
             /\ uaf' = Touch(b)
             /\ Done(t)
             /\ UNCHANGED <<nblk, weak, frees, orig, pdel, wh>>
          \/ /\ Goto(t, "lk_load")
             /\ uaf' = Touch(b)
             /\ UNCHANGED <<nblk, ref, weak, frees, orig, pdel, sh, wh, arg>>

\* "expected= ref_count_->load();" and the loop test expected > 0
LockReload(t) ==
    /\ pc[t] = "lk_load"
    /\ UNCHANGED <<iter, loc, op, task2, bench, server>>
    /\ \E x \in Load(ref, Blk(arg[t].src)) :
          /\ arg' = [arg EXCEPT ![t].n = x]
          /\ IF Alive(x) THEN Goto(t, "lk_cas") ELSE Goto(t, "lk_fail")
    /\ uaf' = Touch(Blk(arg[t].src))
    /\ UNCHANGED <<nblk, ref, weak, frees, orig, pdel, sh, wh>>

\* "return CustomSharedPtr<T>();": a default-constructed object, with a
\* counter pair of its own
LockReturnEmpty(t) ==
    /\ pc[t] = "lk_fail"
    /\ UNCHANGED <<iter, loc, op, task2, bench, server>>
    /\ NewBlock(NoVal)
    /\ sh' = Add(sh, Fresh(NoVal))
    /\ Done(t)
    /\ UNCHANGED <<uaf, wh>>

Step(t) ==
    \/ \E v \in Values \cup {NoVal} : SharedCtor(t, v)
    \/ \E k \in Kinds : SharedCopyCtor(t, k)
    \/ \E k \in Kinds : SharedMoveCtor(t, k)
    \/ \E k \in Kinds : SharedDtorDec(t, k)
    \/ SharedDtorDelete(t)
    \/ SharedDtorWeakLoad(t)
    \/ SharedDtorFree(t)
    \/ \E k \in Kinds : SharedAssignSelf(t, k)
    \/ \E d, s \in Kinds : SharedAssignDec(t, d, s)
    \/ SharedAssignDelete(t)
    \/ SharedAssignWeakLoad(t)
    \/ SharedAssignFree(t)
    \/ SharedAssignAdopt(t)
    \/ WeakDefaultCtor(t)
    \/ \E k \in Kinds : WeakFromShared(t, k)
    \/ \E k \in Kinds : WeakCopyCtor(t, k)
    \/ \E k \in Kinds : WeakDtorDec(t, k)
    \/ WeakDtorRefLoad(t)
    \/ WeakDtorFree(t)
    \/ \E k \in Kinds : WeakAssignSelf(t, k)
    \/ \E d, s \in Kinds : WeakAssignDec(t, d, s)
    \/ WeakAssignRefLoad(t)
    \/ WeakAssignFree(t)
    \/ WeakAssignAdopt(t)
    \/ \E k \in Kinds : LockBegin(t, k)
    \/ LockCas(t)
    \/ LockReload(t)
    \/ LockReturnEmpty(t)

Next == \E t \in Threads : Step(t)

Spec == Init /\ [][Next]_vars

\* ------------------------------------------------- the specification's claims

\* The counter pairs that have been allocated.
Allocated == 1..nblk
\* A thread here is about to run "delete ptr_".
DeletePcs == {"sd_del", "sa_del"}
\* Thread t takes a step of lock().
LockStep(t) == pc'[t] # pc[t] /\ (pc[t] \in LockPcs \/ pc'[t] \in LockPcs)
\* The observer that thread t's step of lock() reads.
Locked(t) == IF pc[t] \in LockPcs THEN arg[t].src ELSE arg'[t].src
\* Thread t's lock() returns the object it built from the observer's fields.
LockSucceeds(t) == pc[t] = "lk_cas" /\ pc'[t] = "idle"
\* Thread t's lock() returns a default-constructed object.
LockFails(t) == pc[t] = "lk_fail" /\ pc'[t] = "idle"

\* C1: every payload is destroyed at most once, and only by the operation
\* whose decrement took the strong count of the payload's pair from 1 to 0.
C1_PayloadDestroyedOnce ==
    /\ [](\A b \in Blocks : pdel[b] <= 1)
    /\ [][\A t \in Threads :
            pc[t] = "idle" /\ pc'[t] \in DeletePcs /\ Ptr(arg'[t].h) # Null =>
                LET b == Blk(arg'[t].h)
                IN  frees[b] = 0 /\ ref[b] = 1 /\ ref'[b] = 0]_vars

\* C2: every counter pair is freed at most once, whichever way the drop of
\* the last owner and the drop of the last observer interleave.
C2_BlockFreedOnce == \A b \in Blocks : frees[b] <= 1

\* C3: no operation reads or writes a counter of a pair that has been freed.
C3_NoUseAfterFree == ~uaf

\* C4: while an owner with a non-null payload pointer is alive, its payload
\* has not been destroyed and the strong count of its pair is at least 1.
C4_LiveOwnerHasPayload ==
    \A k \in Kinds : sh[k] > 0 /\ Ptr(k) # Null =>
        pdel[Ptr(k)] = 0 /\ frees[Blk(k)] = 0 /\ ref[Blk(k)] >= 1

\* C5: the only write of lock() to the strong count of an allocated pair is
\* the exchange of the value v > 0 it read for v + 1: no step of lock() takes
\* the count from 0 to a positive value, or below 0.
C5_LockWritesOnlyByCas ==
    [][\A t \in Threads : LockStep(t) =>
          \A b \in Allocated :
              /\ ref'[b] >= 0
              /\ ref'[b] # ref[b] =>
                    /\ pc[t] = "lk_cas" /\ b = Blk(arg[t].src)
                    /\ ref[b] = arg[t].n /\ ref[b] > 0 /\ ref'[b] = ref[b] + 1]_vars

\* A lock() that read a positive strong count is about to run its exchange
\* after the last owner was dropped: the count is 0.
C5_Witness ==
    \E t \in Threads : pc[t] = "lk_cas" /\ ref[Blk(arg[t].src)] = 0
                       /\ frees[Blk(arg[t].src)] = 0

\* C6: a lock() either returns a non-empty owner with the observer's fields,
\* having incremented the strong count by exactly 1, or returns an empty owner,
\* having incremented no strong count.
C6_LockAllOrNothing ==
    [][\A t \in Threads :
          /\ LockSucceeds(t) =>
                LET k == arg[t].src
                IN  /\ Ptr(k) # Null
                    /\ sh' = Add(sh, k)
                    /\ ref'[Blk(k)] = ref[Blk(k)] + 1
          /\ LockFails(t) =>
                /\ sh' = Add(sh, <<Null, nblk'>>)
                /\ \A b \in Allocated : ref'[b] = ref[b]]_vars

\* C7: while an owner of the payload is alive (so that its counter pair is
\* allocated), a lock() on an observer of the payload does not take its empty
\* return, and when it returns, the object it returns has the observer's
\* fields, the payload is not destroyed and holds the value it was constructed
\* with, and the strong count is one greater.  An owner that is alive at
\* every step of the call is alive at each of them.
C7_LockOfLivePayload ==
    [][\A t \in Threads :
          LET k == Locked(t)
          IN  LockStep(t) /\ Ptr(k) # Null /\ sh[k] > 0 /\ frees[Blk(k)] = 0 =>
                  /\ pc'[t] # "lk_fail"
                  /\ LockSucceeds(t) =>
                        /\ sh' = Add(sh, k)
                        /\ pdel'[Ptr(k)] = 0 /\ orig'[Ptr(k)] \in Values
                        /\ ref'[Blk(k)] = ref[Blk(k)] + 1]_vars

\* A lock() has returned a second owner of a payload whose first owner and
\* observer are alive: the strong count is 2.
C7_Witness ==
    \E k \in Kinds : /\ Ptr(k) # Null /\ sh[k] = 2 /\ wh[k] > 0
                     /\ ref[Blk(k)] = 2 /\ pdel[Ptr(k)] = 0

\* C8: once the last owner of a payload has been dropped (the strong count is
\* 0), no lock() on an observer of the payload returns a non-empty owner, and
\* expired() is true on every such observer.
C8_LockAfterLastOwner ==
    /\ [](\A k \in Kinds : wh[k] > 0 /\ Ptr(k) # Null /\ ref[Blk(k)] = 0 =>
              \A x \in Load(ref, Blk(k)) : x <= 0)
    /\ [][\A t \in Threads :
            LET k == Locked(t)
            IN  LockStep(t) /\ Ptr(k) # Null /\ ref[Blk(k)] = 0 =>
                    ~LockSucceeds(t)]_vars

\* C9: the strong count of a counter pair that has reached 0 stays 0.
C9_ZeroStaysZero ==
    [][\A b \in Allocated : ref[b] = 0 => ref'[b] = 0]_vars

\* The payload is destroyed, its pair is not freed because an observer is
\* left, and a lock() on that observer is running.
C9_Witness ==
    \E t \in Threads :
        LET k == arg[t].src
        IN  /\ pc[t] \in LockPcs /\ Ptr(k) # Null /\ wh[k] > 0
            /\ ref[Blk(k)] = 0 /\ pdel[Ptr(k)] = 1 /\ frees[Blk(k)] = 0

\* ------------------------------ test_multithread_lock (tests/test_task1.cpp)

\* The fields of shared_ptr and of weak_ptr, the first objects of the test.
Observed == <<1, 1>>

\* "CustomSharedPtr<int> shared_ptr(new int(kTestValue));
\*  CustomWeakPtr<int> weak_ptr(shared_ptr);"
InitStress ==
    /\ nblk = 1
    /\ ref = [b \in Blocks |-> IF b = 1 THEN 1 ELSE 0]
    /\ weak = [b \in Blocks |-> IF b = 1 THEN 1 ELSE 0]
    /\ frees = [b \in Blocks |-> 0]
    /\ \E v \in Values : orig = [b \in Blocks |-> IF b = 1 THEN v ELSE NoVal]
    /\ pdel = [b \in Blocks |-> 0]
    /\ uaf = FALSE
    /\ sh = [k \in Kinds |-> IF k = Observed THEN 1 ELSE 0]
    /\ wh = [k \in Kinds |-> IF k = Observed THEN 1 ELSE 0]
    /\ pc = [t \in Threads |-> "idle"]
    /\ arg = [t \in Threads |-> NoArg]
    /\ iter = [t \in Threads |-> 0]
    /\ loc = [i \in Locals |-> NoObj]
    /\ op = NoOp
    /\ NoErase
    /\ NoBench
    /\ NoServer

\* iter[t] counts the calls of lock() thread t has begun and the objects it
\* has destroyed: it is odd while the thread is in an iteration of its loop.
\* "auto locked= weak_ptr.lock();"
StressLock(t) ==
    /\ iter[t] < 2 * MaxIter
    /\ iter[t] % 2 = 0
    /\ LockLoad(t, Observed)
    /\ iter' = [iter EXCEPT ![t] = @ + 1]
    /\ UNCHANGED <<loc, op, task2, bench, server>>

\* the end of the iteration: ~CustomSharedPtr() of locked
StressDrop(t) ==
    /\ iter[t] % 2 = 1
    /\ sh[Observed] > 1
    /\ SharedRelease(t, Observed)
    /\ iter' = [iter EXCEPT ![t] = @ + 1]
    /\ UNCHANGED <<loc, op, task2, bench, server>>

NextStress ==
    \E t \in Threads :
        \/ StressLock(t)
        \/ LockCas(t)
        \/ LockReload(t)
        \/ StressDrop(t)

SpecStress == InitStress /\ [][NextStress]_vars

\* "for(auto& thread : threads) thread.join();"
Joined == \A t \in Threads : iter[t] = 2 * MaxIter /\ pc[t] = "idle"

\* C10: in the stress test no lock() takes its empty return, and when every
\* thread has finished, use_count() of the owner is 1.
C10_StressEndsWithOneOwner ==
    /\ \A t \in Threads : pc[t] \notin {"lk_fail", "sd_del"}
    /\ Joined => ref[1] = 1 /\ sh[Observed] = 1 /\ pdel[1] = 0

\* Every thread has made its calls of lock() and destroyed the objects they
\* returned; the first owner and the observer are left.
C10_Witness == Joined /\ sh[Observed] = 1 /\ wh[Observed] = 1

\* ------------------------------------------- the owner dropped during lock()

\* One owner and one observer of a payload, as in the stress test; thread 1
\* holds the owner and drops it, every thread calls lock() on the observer
\* and drops what the call returned.  iter[t] is odd while t holds an object.
InitRace ==
    /\ InitStress!1 /\ InitStress!2 /\ InitStress!3 /\ InitStress!4
    /\ InitStress!5 /\ InitStress!6 /\ InitStress!7 /\ InitStress!8
    /\ InitStress!9 /\ InitStress!10 /\ InitStress!11
    /\ InitStress!13 /\ InitStress!14 /\ InitStress!15 /\ InitStress!16 /\ InitStress!17
    /\ iter = [t \in Threads |-> IF t = 1 THEN 1 ELSE 0]

\* ~CustomSharedPtr() of an object the thread holds: the owner, or the object
\* a lock() returned (with the observer's fields, or default-constructed)
RaceDrop(t) ==
    /\ iter[t] % 2 = 1
    /\ \E k \in Kinds \ {Empty} : SharedRelease(t, k)
    /\ iter' = [iter EXCEPT ![t] = @ + 1]
    /\ UNCHANGED <<loc, op, task2, bench, server>>

NextRace ==
    \E t \in Threads :
        \/ StressLock(t)
        \/ LockCas(t)
        \/ LockReload(t)
        \/ LockReturnEmpty(t)
        \/ RaceDrop(t)
        \/ SharedDtorDelete(t)
        \/ SharedDtorWeakLoad(t)

SpecRace == InitRace /\ [][NextRace]_vars

\* C11: when the owner is dropped while lock() runs, the caller of lock()
\* never holds a non-empty owner of a destroyed payload: while an object with
\* the observer's fields is alive the payload is not destroyed and the strong
\* count is at least 1; the payload is destroyed once, when the last such
\* object has been dropped.
C11_DropVersusLock ==
    /\ pdel[1] <= 1 /\ frees[1] = 0 /\ ~uaf
    /\ sh[Observed] > 0 => pdel[1] = 0 /\ ref[1] >= 1
    /\ sh[Observed] = 0 /\ (\A t \in Threads : pc[t] \notin {"lk_cas", "sd_del"})
           => pdel[1] = 1 /\ ref[1] = 0

\* The exchange of a lock() came before the decrement of the drop: the
\* caller holds the only owner left, of a payload that is not destroyed.
C11_Witness ==
    /\ iter[1] = 2 /\ pc[1] = "idle"
    /\ \E t \in Threads \ {1} : iter[t] % 2 = 1 /\ pc[t] = "idle"
    /\ sh[Observed] = 1 /\ ref[1] = 1 /\ pdel[1] = 0

\* ------------------------------------------------------- counters and objects

\* No operation is running.
Quiet == \A t \in Threads : pc[t] = "idle"

\* int use_count() const, of an object with fields k: the values it may return
use_count(k) == IF Blk(k) = Null THEN {0} ELSE Load(ref, Blk(k))

\* The live CustomSharedPtr objects whose counters are pair b.
Owners(b) == SumOver(sh, {k \in Kinds : Blk(k) = b})
\* The live CustomWeakPtr objects whose counters are pair b.
Observers(b) == SumOver(wh, {k \in Kinds : Blk(k) = b})

\* C12: between operations, use_count() of every live owner is the number of
\* live owners with the same payload and counter pair.
C12_UseCountIsOwners ==
    Quiet => \A k \in Kinds \ {Empty} :
                 sh[k] > 0 => use_count(k) = {Owners(Blk(k))}

\* C13: between operations, the weak count of every counter pair that is not
\* freed is the number of live observers of the pair (0 when the owner has
\* just been constructed).
C13_WeakCountIsObservers ==
    Quiet => \A b \in Allocated : frees[b] = 0 => weak[b] = Observers(b)

\* Two observers of one pair are alive, after at least one was dropped or
\* assigned (the pair is the second one allocated).
C13_Witness ==
    Quiet /\ \E b \in Allocated : b > 1 /\ frees[b] = 0 /\ weak[b] = 2 /\ Observers(b) = 2

\* C14: between operations, a payload all of whose owners have been dropped
\* has been destroyed, exactly once, whether or not observers are left.
C14_DestroyedWithLastOwner ==
    Quiet => \A b \in Allocated :
                 orig[b] # NoVal /\ sh[<<b, b>>] = 0 => pdel[b] = 1

\* C15: a counter pair that has been freed has a strong count and a weak count
\* of 0, and no live owner or observer refers to it.
C15_FreedPairIsUnreferenced ==
    \A b \in Allocated :
        frees[b] > 0 => /\ ref[b] = 0 /\ weak[b] = 0
                        /\ Owners(b) = 0 /\ Observers(b) = 0

\* C16: a counter pair is not freed while the payload allocated with it is not
\* destroyed.
C16_PayloadBeforePair ==
    \A b \in Allocated : frees[b] > 0 /\ orig[b] # NoVal => pdel[b] >= 1

\* ------------------------------------------------- termination of lock()

\* The exchange of thread t's lock() succeeds.
LockCasWins(t) == LockCas(t) /\ pc'[t] = "idle"

\* The threads of SpecRace under a fair scheduler: a thread inside the loop of
\* lock() takes its next step, and compare_exchange_weak does not fail for
\* ever on a counter that holds the expected value again and again (its
\* spurious failures are transient).
Fairness ==
    \A t \in Threads : /\ WF_vars(LockCas(t))
                       /\ WF_vars(LockReload(t))
                       /\ SF_vars(LockCasWins(t))

SpecLive == InitRace /\ [][NextRace]_vars /\ Fairness

\* C17: every lock() leaves its loop, by an exchange that succeeds or by a
\* read of a strong count that is not positive.
C17_LockTerminates ==
    \A t \in Threads :
        (pc[t] \in {"lk_cas", "lk_load"}) ~> (pc[t] \in {"idle", "lk_fail"})

\* An exchange has failed, and the lock() must go round its loop again,
\* while the owner is alive.
C17_Witness ==
    \E t \in Threads : pc[t] = "lk_load" /\ ref[1] >= 1

\* C18: a lock() on an observer that is empty, or whose strong count is 0
\* (expired), does not return a non-empty owner; it returns a
\* default-constructed owner (which tests false), and no step of it changes
\* the strong or the weak count of an allocated pair or any observer.
C18_FailedLockChangesNothing ==
    [][\A t \in Threads :
          LET k == Locked(t)
          IN  LockStep(t) /\ (Blk(k) = Null \/ ref[Blk(k)] = 0) =>
                  /\ ~LockSucceeds(t)
                  /\ LockFails(t) => sh' = Add(sh, <<Null, nblk'>>)
                  /\ wh' = wh
                  /\ \A b \in Allocated : ref'[b] = ref[b] /\ weak'[b] = weak[b]]_vars

\* ------------------------------------------ a single-threaded program
\* The member functions applied, one whole call at a time, to the named
\* objects of one thread (as the unit tests do).  op names the call made last.

Shared(k) == [kind |-> "shared", k |-> k]
Weak(k) == [kind |-> "weak", k |-> k]
IsShared(i) == loc[i].kind = "shared"
IsWeak(i) == loc[i].kind = "weak"
IsNone(i) == loc[i].kind = "none"
SeqFrame == UNCHANGED <<sh, wh, pc, arg, iter, task2, bench, server>>

\* The fields of the new object and of other after
\* CustomSharedPtr(CustomSharedPtr&& other): "ptr_(other.ptr_), ..." and
\* "other.ptr_= nullptr; other.ref_count_= nullptr; ..."
MovedFromKept(k) == k
MovedTo(k) == k
MovedFrom(k) == Empty

\* The heap after an owner with fields d has released its counters and has
\* taken those of pair inc (Null: none): "int count= --(*ref_count_);
\* if(count == 0) { delete ptr_; if(weak_count_->load() == 0) { delete
\* ref_count_; delete weak_count_; } }" and "++(*ref_count_)".  rel says
\* whether the guard of the release holds.
SharedHeap(d, rel, inc) ==
    \E count \in (IF rel THEN Decremented(ref, Blk(d)) ELSE {1}),
       x \in (IF rel THEN Load(weak, Blk(d)) ELSE {1}) :
        LET last == rel /\ LastOwner(count)
            r1 == IF rel THEN Store(ref, Blk(d), count) ELSE ref
            f1 == IF last /\ NoObserver(x) THEN Deleted(frees, Blk(d)) ELSE frees
        IN  /\ pdel' = IF last /\ Ptr(d) # Null THEN Deleted(pdel, Ptr(d)) ELSE pdel
            /\ frees' = f1
            /\ ref' = IF inc # Null /\ f1[inc] = 0
                         THEN [r1 EXCEPT ![inc] = @ + 1] ELSE r1
            /\ uaf' = (uaf \/ (rel /\ frees[Blk(d)] > 0) \/ (inc # Null /\ f1[inc] > 0))
            /\ UNCHANGED <<nblk, weak, orig>>

\* The same for an observer with fields d: "int count= --(*weak_count_);
\* if(count == 0 && ref_count_ != nullptr && ref_count_->load() == 0) {
\* delete ref_count_; delete weak_count_; }" and "++(*weak_count_)".
WeakHeap(d, rel, inc) ==
    \E count \in (IF rel THEN Decremented(weak, Blk(d)) ELSE {1}),
       x \in (IF rel THEN Load(ref, Blk(d)) ELSE {1}) :
        LET last == rel /\ LastObserver(count)
            w1 == IF rel THEN Store(weak, Blk(d), count) ELSE weak
            f1 == IF last /\ NoOwner(x) THEN Deleted(frees, Blk(d)) ELSE frees
        IN  /\ frees' = f1
            /\ weak' = IF inc # Null /\ f1[inc] = 0
                          THEN [w1 EXCEPT ![inc] = @ + 1] ELSE w1
            /\ uaf' = (uaf \/ (rel /\ frees[Blk(d)] > 0) \/ (inc # Null /\ f1[inc] > 0))
            /\ UNCHANGED <<nblk, ref, orig, pdel>>

\* "CustomSharedPtr<int> shared(new int(42));"
DemoValues == {42}

\* CustomSharedPtr<int> i(new int(v)); or CustomSharedPtr<int> i;
\* (n: the pairs the program may allocate)
SeqCtorIn(i, v, n) ==
    /\ IsNone(i)
    /\ NewBlockIn(v, n)
    /\ loc' = [loc EXCEPT ![i] = Shared(Fresh(v))]
    /\ op' = <<"ctor", i, 0>>
    /\ UNCHANGED uaf /\ SeqFrame

SeqCtor(i, v) == SeqCtorIn(i, v, MaxBlocks)

\* CustomSharedPtr<int> i(j);
SeqCopyCtor(i, j) ==
    /\ IsNone(i) /\ IsShared(j)
    /\ Blk(loc[j].k) # Null => RefRoom(Blk(loc[j].k))
    /\ SharedHeap(Empty, FALSE, Blk(loc[j].k))
    /\ loc' = [loc EXCEPT ![i] = Shared(loc[j].k)]
    /\ op' = <<"copy", i, j>>
    /\ SeqFrame

\* CustomSharedPtr<int> i(std::move(j));
SeqMoveCtor(i, j) ==
    /\ IsNone(i) /\ IsShared(j)
    /\ loc' = [loc EXCEPT ![i] = Shared(MovedTo(loc[j].k)),
                          ![j] = Shared(MovedFrom(loc[j].k))]
    /\ op' = <<"move", i, j>>
    /\ UNCHANGED heap /\ SeqFrame

\* "if(ptr_ != nullptr && ref_count_ != nullptr)" of ~CustomSharedPtr()
ReleasesCounters(k) == Blk(k) # Null
Releases(k) == Ptr(k) # Null /\ Blk(k) # Null

\* i goes out of scope: ~CustomSharedPtr()
SeqDtor(i) ==
    /\ IsShared(i)
    /\ SharedHeap(loc[i].k, Releases(loc[i].k), Null)
    /\ loc' = [loc EXCEPT ![i] = NoObj]
    /\ op' = <<"dtor", i, Blk(loc[i].k)>>
    /\ SeqFrame

\* "if(this != &other)" of both assignment operators
SameObjectNever(i, j) == FALSE
SameObject(i, j) == i = j

\* operator=(const CustomSharedPtr& other) on object i with other = j
SharedAssign(i, j) ==
    /\ IsShared(i) /\ IsShared(j)
    /\ Blk(loc[j].k) # Null /\ Blk(loc[j].k) # Blk(loc[i].k) => RefRoom(Blk(loc[j].k))
    /\ IF SameObject(i, j)
          THEN UNCHANGED <<heap, loc>>
          ELSE /\ SharedHeap(loc[i].k, Blk(loc[i].k) # Null, Blk(loc[j].k))
               /\ loc' = [loc EXCEPT ![i] = Shared(loc[j].k)]
    /\ SeqFrame

\* i = j;
SeqAssign(i, j) == SharedAssign(i, j) /\ op' = <<"assign", i, j>>

\* i = std::move(j);  The class declares no operator=(CustomSharedPtr&&), and
\* its copy operations keep the compiler from declaring one: the call is
\* operator=(const CustomSharedPtr&).
SeqMoveAssign(i, j) == i # j /\ SharedAssign(i, j) /\ op' = <<"move_assign", i, j>>

\* CustomWeakPtr<int> i(j); with j a CustomSharedPtr
SeqWeakCtor(i, j) ==
    /\ IsNone(i) /\ IsShared(j)
    /\ Blk(loc[j].k) # Null => WeakRoom(Blk(loc[j].k))
    /\ WeakHeap(Empty, FALSE, Blk(loc[j].k))
    /\ loc' = [loc EXCEPT ![i] = Weak(loc[j].k)]
    /\ op' = <<"weak_ctor", i, j>>
    /\ SeqFrame

\* i goes out of scope: ~CustomWeakPtr()
SeqWeakDtor(i) ==
    /\ IsWeak(i)
    /\ WeakHeap(loc[i].k, Blk(loc[i].k) # Null, Null)
    /\ loc' = [loc EXCEPT ![i] = NoObj]
    /\ op' = <<"weak_dtor", i, Blk(loc[i].k)>>
    /\ SeqFrame

\* CustomWeakPtr<int> i;
SeqWeakDefaultCtor(i) ==
    /\ IsNone(i)
    /\ loc' = [loc EXCEPT ![i] = Weak(Empty)]
    /\ op' = <<"weak_default", i, 0>>
    /\ UNCHANGED heap /\ SeqFrame

\* CustomWeakPtr<int> i(j); with j a CustomWeakPtr
SeqWeakCopyCtor(i, j) ==
    /\ IsNone(i) /\ IsWeak(j)
    /\ Blk(loc[j].k) # Null => WeakRoom(Blk(loc[j].k))
    /\ WeakHeap(Empty, FALSE, Blk(loc[j].k))
    /\ loc' = [loc EXCEPT ![i] = Weak(loc[j].k)]
    /\ op' = <<"weak_copy", i, j>>
    /\ SeqFrame

\* i = j; on CustomWeakPtr objects: operator=(const CustomWeakPtr& other)
SeqWeakAssign(i, j) ==
    /\ IsWeak(i) /\ IsWeak(j)
    /\ Blk(loc[j].k) # Null /\ Blk(loc[j].k) # Blk(loc[i].k) => WeakRoom(Blk(loc[j].k))
    /\ IF SameObject(i, j)
          THEN UNCHANGED <<heap, loc>>
          ELSE /\ WeakHeap(loc[i].k, Blk(loc[i].k) # Null, Blk(loc[j].k))
               /\ loc' = [loc EXCEPT ![i] = Weak(loc[j].k)]
    /\ op' = <<"weak_assign", i, j>>
    /\ SeqFrame

\* auto i= j.lock(); in one thread compare_exchange_weak succeeds once it is
\* retried, and finds in the counter the value just loaded
SeqLockIn(i, j, n) ==
    /\ IsNone(i) /\ IsWeak(j)
    /\ LET k == loc[j].k
           b == Blk(loc[j].k)
       IN  \E x \in (IF b = Null THEN {0} ELSE Load(ref, b)) :
              IF b # Null /\ Alive(x)
                 THEN /\ RefRoom(b)
                      /\ \E cur \in Load(ref, b) : CasMatches(cur, x)
                      /\ ref' = Store(ref, b, Desired(x))
                      /\ uaf' = Touch(b)
                      /\ loc' = [loc EXCEPT ![i] = Shared(k)]
                      /\ UNCHANGED <<nblk, weak, frees, orig, pdel>>
                 ELSE /\ NewBlockIn(NoVal, n)
                      /\ uaf' = IF b = Null THEN uaf ELSE Touch(b)
                      /\ loc' = [loc EXCEPT ![i] = Shared(Fresh(NoVal))]
    /\ op' = <<"lock", i, j>>
    /\ SeqFrame

SeqLock(i, j) == SeqLockIn(i, j, MaxBlocks)

\* bool expired() const of CustomSharedPtr: "use_count() == 0"
expired(k) == {n = 0 : n \in use_count(k)}
\* bool expired() const of CustomWeakPtr:
\* "ref_count_ == nullptr || ref_count_->load() == 0"
weak_expired(k) == IF Blk(k) = Null THEN {TRUE} ELSE {NoOwner(x) : x \in Load(ref, Blk(k))}

\* i.use_count(); op records the value returned
SeqUseCount(i) ==
    /\ ~IsNone(i)
    /\ \E n \in use_count(loc[i].k) : op' = <<"use_count", i, n>>
    /\ uaf' = IF Blk(loc[i].k) = Null THEN uaf ELSE Touch(Blk(loc[i].k))
    /\ UNCHANGED <<nblk, ref, weak, frees, orig, pdel, loc>> /\ SeqFrame

\* i.expired(); op records the value returned
SeqExpired(i) ==
    /\ ~IsNone(i)
    /\ \E e \in (IF IsWeak(i) THEN weak_expired(loc[i].k) ELSE expired(loc[i].k)) :
          op' = <<"expired", i, e>>
    /\ uaf' = IF Blk(loc[i].k) = Null THEN uaf ELSE Touch(Blk(loc[i].k))
    /\ UNCHANGED <<nblk, ref, weak, frees, orig, pdel, loc>> /\ SeqFrame

NextSeq ==
    \E i, j \in Locals :
        \/ \E v \in Values \cup DemoValues \cup {NoVal} : SeqCtor(i, v)
        \/ SeqCopyCtor(i, j)
        \/ SeqMoveCtor(i, j)
        \/ SeqDtor(i)
        \/ SeqAssign(i, j)
        \/ SeqMoveAssign(i, j)
        \/ SeqWeakCtor(i, j)
        \/ SeqWeakDtor(i)
        \/ SeqWeakDefaultCtor(i)
        \/ SeqWeakCopyCtor(i, j)
        \/ SeqWeakAssign(i, j)
        \/ SeqLock(i, j)
        \/ SeqUseCount(i)
        \/ SeqExpired(i)

SpecSeq == Init /\ [][NextSeq]_vars

\* T* get() const and explicit operator bool() const, of an object with fields k
get(k) == Ptr(k)
HasPayload(k) == get(k) # Null

\* C19: CustomSharedPtr<int> i(std::move(j)) changes no counter and deletes
\* nothing, gives i the payload and the counter pair j had, and leaves j
\* empty with use_count() 0; the destructor of such a j changes no counter
\* and deletes nothing.
C19_MoveConstructor ==
    [][\A i, j \in Locals :
        /\ op' = <<"move", i, j>> =>
              /\ UNCHANGED <<ref, weak, frees, pdel>>
              /\ loc'[i] = Shared(loc[j].k)
              /\ \E k \in Kinds : /\ loc'[j] = Shared(k)
                                   /\ ~HasPayload(k)
                                   /\ use_count(k)' = {0}
        /\ op' = <<"dtor", j, 0>> /\ loc[j] = Shared(MovedFrom(loc[j].k)) =>
              UNCHANGED <<ref, weak, frees, pdel>>]_vars

\* i has been move-constructed from the only owner j of a payload
C19_Witness ==
    \E i, j \in Locals :
        /\ op = <<"move", i, j>>
        /\ HasPayload(loc[i].k) /\ ref[Blk(loc[i].k)] = 1 /\ frees[Blk(loc[i].k)] = 0
        /\ loc[j] = Shared(Empty)

\* C20: i = std::move(j) gives i the payload and the counter pair j had, leaves
\* the strong count of that pair as it was, and leaves j empty.
C20_MoveAssignTransfers ==
    [][\A i, j \in Locals :
        op' = <<"move_assign", i, j>> /\ ~uaf' =>
            /\ loc'[i] = Shared(loc[j].k)
            /\ Blk(loc[j].k) # Null => ref'[Blk(loc[j].k)] = ref[Blk(loc[j].k)]
            /\ loc'[j] = Shared(Empty)]_vars

\* C21: a = b on owners of different counter pairs decrements the strong
\* count of a's old pair by one, deletes a's old payload exactly when that
\* count became 0 and the old pair exactly when in addition its weak count
\* is 0, and then gives a the fields of b with b's strong count one higher.
C21_CopyAssign ==
    [][\A i, j \in Locals :
        LET a == loc[i].k
            b == loc[j].k
        IN  op' = <<"assign", i, j>> /\ Blk(a) # Null /\ Blk(b) # Null /\ Blk(a) # Blk(b) =>
              /\ ref'[Blk(a)] = ref[Blk(a)] - 1
              /\ Ptr(a) # Null =>
                    pdel'[Ptr(a)] = pdel[Ptr(a)] + (IF ref'[Blk(a)] = 0 THEN 1 ELSE 0)
              /\ frees'[Blk(a)] = frees[Blk(a)]
                    + (IF ref'[Blk(a)] = 0 /\ weak[Blk(a)] = 0 THEN 1 ELSE 0)
              /\ loc'[i] = Shared(b)
              /\ ref'[Blk(b)] = ref[Blk(b)] + 1
              /\ frees'[Blk(b)] = frees[Blk(b)]
              /\ Ptr(b) # Null => pdel'[Ptr(b)] = pdel[Ptr(b)]
              /\ weak' = weak]_vars

\* a = b has destroyed the payload a owned alone and freed its counters
C21_Witness ==
    \E i, j \in Locals, x \in 1..MaxBlocks :
        /\ op = <<"assign", i, j>>
        /\ loc[i] = loc[j] /\ HasPayload(loc[j].k) /\ Blk(loc[j].k) # x
        /\ ref[Blk(loc[j].k)] = 2
        /\ pdel[x] = 1 /\ frees[x] = 1

\* C22: a = a on a CustomSharedPtr and w = w on a CustomWeakPtr change no
\* counter, no payload and no field of any object, and delete nothing, also
\* when a is the only owner.
C22_SelfAssignment ==
    [][\A i \in Locals :
        op' = <<"assign", i, i>> \/ op' = <<"weak_assign", i, i>> =>
            UNCHANGED <<heap, loc>>]_vars

\* the only owner of a payload has been assigned to itself
C22_Witness ==
    \E i \in Locals :
        /\ op = <<"assign", i, i>>
        /\ HasPayload(loc[i].k)
        /\ ref[Blk(loc[i].k)] = 1 /\ pdel[Ptr(loc[i].k)] = 0 /\ frees[Blk(loc[i].k)] = 0

\* The copy constructor of CustomSharedPtr makes an object with fields k.
CopyConstructs(k) == sh' = Add(sh, k) /\ pc' = pc /\ nblk' = nblk

WeakOps == {"weak_default", "weak_ctor", "weak_copy", "weak_assign", "weak_dtor"}

\* C24: constructing a CustomWeakPtr (from an owner or from an observer),
\* assigning one and destroying one change no strong count, so use_count()
\* of every owner stays as it was, and delete no payload; destroying the
\* last observer of a pair whose strong count is above 0 deletes nothing.
C24_ObserversLeaveOwnership ==
    [][/\ op'[1] \in WeakOps => ref' = ref /\ pdel' = pdel
       /\ \A i \in Locals, b \in 1..MaxBlocks :
             op' = <<"weak_dtor", i, b>> /\ weak'[b] = 0 /\ ref[b] > 0 =>
                 frees' = frees /\ pdel' = pdel]_vars

\* the last observer of a live payload has been destroyed
C24_Witness ==
    \E i, j \in Locals, b \in 1..MaxBlocks :
        /\ op = <<"weak_dtor", i, b>>
        /\ weak[b] = 0 /\ ref[b] = 1 /\ frees[b] = 0 /\ pdel[b] = 0
        /\ loc[j] = Shared(<<b, b>>)

\* C25: CustomWeakPtr() makes an object without counters and changes nothing
\* else.  On an object without counters expired() returns true and
\* use_count() returns 0, lock() returns an owner without payload, and the
\* destructor changes no counter and deletes nothing.  On every observer
\* expired() returns true exactly when the object has no counters or its
\* strong count is 0.
C25_DefaultObserver ==
    [][\A i, j \in Locals :
        LET k == loc[j].k
        IN  /\ op' = <<"weak_default", i, 0>> =>
                  loc'[i] = Weak(Empty) /\ UNCHANGED heap
            /\ IsWeak(j) /\ Blk(k) = Null =>
                  /\ op' = <<"expired", j, FALSE>> => FALSE
                  /\ \A n \in 1..MaxStrong : op' = <<"use_count", j, n>> => FALSE
                  /\ op' = <<"lock", i, j>> => IsShared(i)' /\ ~HasPayload(loc'[i].k)
                  /\ op' = <<"weak_dtor", j, Null>> => UNCHANGED heap
            /\ IsWeak(j) /\ Blk(k) # Null =>
                  \A e \in BOOLEAN :
                      op' = <<"expired", j, e>> => (e <=> ref[Blk(k)] = 0)]_vars

\* lock() of a default-constructed observer has returned
C25_Witness ==
    \E i, j \in Locals :
        /\ op = <<"lock", i, j>>
        /\ loc[j] = Weak(Empty)
        /\ IsShared(i) /\ ~HasPayload(loc[i].k)

\* The program "CustomSharedPtr<int> shared(new int(42));
\* CustomWeakPtr<int> weak(shared); { auto locked= weak.lock(); ... }" with
\* shared, weak and locked the objects 1, 2 and 3: its state when the three
\* objects are l1, l2 and l3, the counters of the one pair are r and w, and
\* the payload has been deleted pd times.
Demo(l1, l2, l3, r, w, pd) ==
    /\ loc[1] = l1 /\ loc[2] = l2 /\ loc[3] = l3
    /\ \A i \in Locals \ {1, 2, 3} : IsNone(i)
    /\ nblk = 1 /\ orig[1] \in DemoValues
    /\ ref[1] = r /\ weak[1] = w /\ pdel[1] = pd /\ frees[1] = 0 /\ ~uaf
DemoStart == nblk = 0 /\ \A i \in Locals : IsNone(i)
DemoShared == Demo(Shared(<<1, 1>>), NoObj, NoObj, 1, 0, 0)
DemoWeak == Demo(Shared(<<1, 1>>), Weak(<<1, 1>>), NoObj, 1, 1, 0)
DemoLocked == Demo(Shared(<<1, 1>>), Weak(<<1, 1>>), Shared(<<1, 1>>), 2, 1, 0)
DemoUnlocked == DemoWeak
DemoDropped == Demo(NoObj, Weak(<<1, 1>>), NoObj, 0, 1, 1)

\* C26: an owner of 42 is constructed, an observer is made from it and
\* locked: the result has a payload, dereferences to 42, and use_count() of
\* the owner is 2.  The result is destroyed: use_count() is 1.  The owner is
\* destroyed: expired() of the observer is true and lock() returns an owner
\* without payload.
C26_Lifecycle ==
    [][/\ DemoStart /\ op' = <<"ctor", 1, 0>> /\ orig'[1] \in DemoValues => DemoShared'
       /\ DemoShared /\ op' = <<"weak_ctor", 2, 1>> => DemoWeak'
       /\ DemoWeak /\ op' = <<"lock", 3, 2>> =>
             /\ DemoLocked'
             /\ HasPayload(loc'[3].k) /\ orig'[Ptr(loc'[3].k)] \in DemoValues
             /\ use_count(loc[1].k)' = {2}
       /\ DemoLocked /\ op' = <<"dtor", 3, 1>> =>
             DemoUnlocked' /\ use_count(loc[1].k)' = {1}
       /\ DemoUnlocked /\ op' = <<"dtor", 1, 1>> =>
             DemoDropped' /\ weak_expired(loc[2].k)' = {TRUE}
       /\ DemoDropped /\ op' = <<"lock", 3, 2>> =>
             IsShared(3)' /\ ~HasPayload(loc'[3].k) /\ ref'[1] = 0]_vars

\* the end of that program: lock() has returned after the payload of 42 was
\* deleted
C26_Witness ==
    /\ op = <<"lock", 3, 2>>
    /\ loc[1] = NoObj /\ loc[2] = Weak(<<1, 1>>) /\ ~HasPayload(loc[3].k)
    /\ orig[1] \in DemoValues /\ ref[1] = 0 /\ weak[1] = 1 /\ pdel[1] = 1 /\ frees[1] = 0

Reads == {"use_count", "expired"}

\* C27: use_count() and expired() of an owner or an observer change no
\* counter, no payload and no object, and a second call that follows a
\* first one on the same object returns the same value.
C27_PureReads ==
    [][/\ op'[1] \in Reads => UNCHANGED <<heap, loc>>
       /\ op[1] \in Reads /\ op'[1] = op[1] /\ op'[2] = op[2] => op'[3] = op[3]]_vars

\* use_count() of an observer has returned 2
C27_Witness ==
    \E i \in Locals :
        /\ op = <<"use_count", i, 2>>
        /\ IsWeak(i) /\ ref[Blk(loc[i].k)] = 2

\* C28: in every state, the strong count and the weak count of every counter
\* pair that is allocated and not deleted are at least 0.
C28_CountersNotNegative ==
    \A b \in 1..nblk : frees[b] = 0 => ref[b] >= 0 /\ weak[b] >= 0

\* both counters of a pair are 0 and the pair is not deleted: the destructor
\* of the last owner has deleted the payload and not yet the counters
C28_Witness ==
    \E b \in 1..nblk :
        /\ frees[b] = 0 /\ ref[b] = 0 /\ weak[b] = 0 /\ pdel[b] = 1
        /\ \E t \in Threads : pc[t] # "idle"

\* ------------------------------------------------- resetting the owner
\* demonstrate_weak_ptr_lock() from "shared= CustomSharedPtr<int>();" on:
\* shared and weak are the objects 1 and 2, and the program goes on with any
\* of the calls below.
InitReset ==
    /\ nblk = 1
    /\ ref = [b \in Blocks |-> IF b = 1 THEN 1 ELSE 0]
    /\ weak = [b \in Blocks |-> IF b = 1 THEN 1 ELSE 0]
    /\ frees = [b \in Blocks |-> 0]
    /\ \E v \in DemoValues : orig = [b \in Blocks |-> IF b = 1 THEN v ELSE NoVal]
    /\ pdel = [b \in Blocks |-> 0]
    /\ uaf = FALSE
    /\ sh = [k \in Kinds |-> 0]
    /\ wh = [k \in Kinds |-> 0]
    /\ pc = [t \in Threads |-> "idle"]
    /\ arg = [t \in Threads |-> NoArg]
    /\ iter = [t \in Threads |-> 0]
    /\ loc = [i \in Locals |-> IF i = 1 THEN Shared(<<1, 1>>)
                               ELSE IF i = 2 THEN Weak(<<1, 1>>) ELSE NoObj]
    /\ op = <<"dtor", 3, 1>>
    /\ NoErase
    /\ NoBench
    /\ NoServer

NextReset ==
    \E i, j \in Locals :
        \/ SeqCtorIn(i, NoVal, MaxResetBlocks)
        \/ SeqCopyCtor(i, j)
        \/ SeqAssign(i, j)
        \/ SeqDtor(i)
        \/ SeqWeakCopyCtor(i, j)
        \/ SeqWeakAssign(i, j)
        \/ SeqWeakDtor(i)
        \/ SeqLockIn(i, j, MaxResetBlocks)
        \/ SeqExpired(i)

SpecReset == InitReset /\ [][NextReset]_vars

\* Object i is the only owner of payload b, and object j is a
\* default-constructed owner.
SoleOwner(i, b) == loc[i] = Shared(<<b, b>>) /\ ref[b] = 1 /\ pdel[b] = 0
DefaultOwner(j) == IsShared(j) /\ ~HasPayload(loc[j].k) /\ Blk(loc[j].k) # Null

\* C29: assigning a default-constructed owner to the only owner of a payload
\* deletes the payload, which is never deleted twice; from then on lock() of
\* an observer of that payload returns an owner without payload; and the
\* counters of a pair are not deleted while an observer of it exists.
C29_ResetSoleOwner ==
    /\ [](\A b \in Blocks : pdel[b] <= 1)
    /\ [](\A j \in Locals : IsWeak(j) /\ Blk(loc[j].k) # Null => frees[Blk(loc[j].k)] = 0)
    /\ [][\A i, j \in Locals, b \in 1..nblk :
            /\ op' = <<"assign", i, j>> /\ SoleOwner(i, b) /\ DefaultOwner(j) =>
                  pdel'[b] = 1 /\ ref'[b] = 0
            /\ op' = <<"lock", i, j>> /\ loc[j] = Weak(<<b, b>>) /\ pdel[b] = 1 =>
                  IsShared(i)' /\ ~HasPayload(loc'[i].k) /\ UNCHANGED <<pdel, frees>>]_vars

\* lock() has returned after the reset of the only owner, object 1, which has
\* the counters of the temporary object (incremented by the assignment)
C29_Witness ==
    /\ op = <<"lock", 3, 2>>
    /\ loc[1] = Shared(<<Null, 2>>) /\ ref[2] = 2 /\ loc[2] = Weak(<<1, 1>>)
    /\ pdel[1] = 1 /\ frees[1] = 0 /\ ref[1] = 0
    /\ loc[3] = Shared(<<Null, MaxResetBlocks>>)

\* ------------------------------------------------ erase_every_second_*
\* std::vector<int> as a sequence: C++ index i is position i + 1.

Elems == 1..MaxElem
Inputs == UNION {[1..n -> Elems] : n \in 0..MaxLen}

\* The vectors vec.erase(vec.begin() + i) may leave: with i outside the
\* vector the call is undefined.
Erased(v, i) ==
    IF i < Len(v)
       THEN {SubSeq(v, 1, i) \o SubSeq(v, i + 2, Len(v))}
       ELSE {v, SubSeq(v, 1, Len(v) - 1)}

\* "i < vec.size()"
InRangeOrEnd(i, size) == i <= size
InRange(i, size) == i < size
\* "i+= 1"
SkipIndex(i) == i + 2
NextIndex(i) == i + 1

\* No smart pointer exists while the vector functions run.
NoPointers ==
    /\ Init!1 /\ Init!2 /\ Init!3 /\ Init!4 /\ Init!5 /\ Init!6 /\ Init!7
    /\ Init!8 /\ Init!9 /\ Init!10 /\ Init!11 /\ Init!12 /\ Init!13 /\ Init!14
PointersUnchanged ==
    UNCHANGED <<nblk, ref, weak, frees, orig, pdel, uaf, sh, wh, pc, arg, iter, loc, op, bench, server>>

\* erase_every_second_naive(vec) is called: "size_t i= 1"
InitNaive ==
    /\ NoPointers
    /\ NoBench
    /\ NoServer
    /\ input \in Inputs
    /\ vec = input
    /\ idx = 1
    /\ epc = "naive"
    /\ oob = FALSE
    /\ pos = 0 /\ keep = TRUE /\ method = "naive"

\* one iteration: "i < vec.size()", "vec.erase(vec.begin() + i);", "i+= 1"
NaiveErase ==
    /\ epc = "naive"
    /\ InRange(idx, Len(vec))
    /\ vec' \in Erased(vec, idx)
    /\ oob' = (oob \/ idx >= Len(vec))
    /\ idx' = NextIndex(idx)
    /\ UNCHANGED <<input, epc, pos, keep, method>>
    /\ PointersUnchanged

\* the loop ends: "i < vec.size()" is false
NaiveReturn ==
    /\ epc = "naive"
    /\ ~InRange(idx, Len(vec))
    /\ epc' = "done"
    /\ UNCHANGED <<input, vec, idx, oob, pos, keep, method>>
    /\ PointersUnchanged

NextNaive == NaiveErase \/ NaiveReturn

SpecNaive == InitNaive /\ [][NextNaive]_vars

\* C30: erase_every_second_naive never erases outside the vector; before
\* each iteration the first i elements of vec are those of the even indices
\* 0, 2, ... of the input and the others are the elements of the input from
\* index 2i - 1 on; and it returns, in their order, exactly the elements of
\* the even indices of the input, ceil(n/2) of them.
C30_NaiveKeepsEvenIndices ==
    /\ ~oob
    /\ epc = "naive" =>
          /\ Len(vec) = Len(input) - (idx - 1)
          /\ \A k \in 1..Len(vec) :
                vec[k] = IF k <= idx THEN input[2 * k - 1] ELSE input[k + idx - 1]
    /\ epc = "done" =>
          /\ Len(vec) = (Len(input) + 1) \div 2
          /\ \A k \in 1..Len(vec) : vec[k] = input[2 * k - 1]

\* the function has returned from an input of the greatest length whose
\* elements are not all equal
C30_Witness ==
    /\ epc = "done"
    /\ Len(input) = MaxLen /\ Len(vec) = (MaxLen + 1) \div 2
    /\ input[1] # input[2] /\ input[2] # input[3]

\* ------------------------------------- the other erase_every_second_*

Methods == {"naive", "remove_if", "iterators", "copy", "partition", "compact"}

\* One of the functions is called: "size_t i= 1" (naive), "bool keep= true",
\* "auto it= vec.begin(); size_t index= 0;", "size_t write_pos= 0" and
\* "size_t read_pos= 0".
InitErase ==
    /\ NoPointers
    /\ NoBench
    /\ NoServer
    /\ input \in Inputs
    /\ vec = input
    /\ method \in Methods
    /\ epc = method
    /\ idx = (IF method = "naive" THEN 1 ELSE 0)
    /\ oob = FALSE
    /\ pos = 0
    /\ keep = TRUE

\* v without the elements from position n on: vec.erase(p, vec.end()) and
\* vec.resize(n) with n <= vec.size()
Truncated(v, n) == SubSeq(v, 1, n)

\* The predicate of erase_every_second_remove_if: "bool result= !keep;"
Removes(k) == ~k

\* std::remove_if, one element: the predicate is called on the element at idx
\* ("keep= !keep;"), and an element it does not remove is moved to pos.
RemoveIfStep ==
    /\ epc = "remove_if"
    /\ idx < Len(vec)
    /\ IF Removes(keep)
          THEN UNCHANGED <<vec, pos>>
          ELSE /\ vec' = [vec EXCEPT ![pos + 1] = vec[idx + 1]]
               /\ pos' = pos + 1
    /\ keep' = ~keep
    /\ idx' = idx + 1
    /\ UNCHANGED <<input, epc, oob, method>>
    /\ PointersUnchanged

\* std::remove_if returns new_end, and "vec.erase(new_end, vec.end());"
RemoveIfErase ==
    /\ epc = "remove_if"
    /\ ~(idx < Len(vec))
    /\ vec' = Truncated(vec, pos)
    /\ epc' = "done"
    /\ UNCHANGED <<input, idx, oob, pos, keep, method>>
    /\ PointersUnchanged

\* "index % 2 == 1"
IsEvenIndex(index) == index % 2 = 0
IsOddIndex(index) == index % 2 = 1

\* erase_every_second_iterators, one iteration: "it != vec.end()",
\* "it= vec.erase(it);" or "++it;", and "++index;".  pos is it - vec.begin().
IterStep ==
    /\ epc = "iterators"
    /\ pos # Len(vec)
    /\ IF IsOddIndex(idx)
          THEN /\ vec' \in Erased(vec, pos)
               /\ oob' = (oob \/ pos >= Len(vec))
               /\ UNCHANGED pos
          ELSE /\ pos' = pos + 1
               /\ UNCHANGED <<vec, oob>>
    /\ idx' = idx + 1
    /\ UNCHANGED <<input, epc, keep, method>>
    /\ PointersUnchanged

IterReturn ==
    /\ epc = "iterators"
    /\ pos = Len(vec)
    /\ epc' = "done"
    /\ UNCHANGED <<input, vec, idx, oob, pos, keep, method>>
    /\ PointersUnchanged

\* erase_every_second_copy: "for(size_t i= 0; i < vec.size(); i+= 2)
\* result.push_back(vec[i]);" from index i on, result being what was pushed
RECURSIVE CopyFrom(_, _, _)
CopyFrom(v, i, result) ==
    IF i < Len(v) THEN CopyFrom(v, i + 2, Append(result, v[i + 1])) ELSE result

erase_every_second_copy(v) == CopyFrom(v, 0, <<>>)

\* "vec= std::move(result);"
CopyCall ==
    /\ epc = "copy"
    /\ vec' = erase_every_second_copy(vec)
    /\ epc' = "done"
    /\ UNCHANGED <<input, idx, oob, pos, keep, method>>
    /\ PointersUnchanged

\* The predicate of erase_every_second_partition, called on the element at
\* index "&elem - vec.data()": "return index % 2 == 0;"
KeepsAll(index) == TRUE
Keeps(index) == index % 2 = 0

\* The elements of v from index i on for which the predicate returns want,
\* in their order.  std::stable_partition calls the predicate on each
\* element where it lies in vec, before it moves it.
RECURSIVE Selected(_, _, _)
Selected(v, i, want) ==
    IF i < Len(v)
       THEN (IF Keeps(i) = want THEN <<v[i + 1]>> ELSE <<>>) \o Selected(v, i + 1, want)
       ELSE <<>>

\* std::stable_partition(vec.begin(), vec.end(), ...), pos its result
PartitionCall ==
    /\ epc = "partition"
    /\ vec' = Selected(vec, 0, TRUE) \o Selected(vec, 0, FALSE)
    /\ pos' = Len(Selected(vec, 0, TRUE))
    /\ epc' = "partition_erase"
    /\ UNCHANGED <<input, idx, oob, keep, method>>
    /\ PointersUnchanged

\* "vec.erase(partition_point, vec.end());"
PartitionErase ==
    /\ epc = "partition_erase"
    /\ vec' = Truncated(vec, pos)
    /\ epc' = "done"
    /\ UNCHANGED <<input, idx, oob, pos, keep, method>>
    /\ PointersUnchanged

\* An element that was moved from.
Hole == 0

\* the in-place erase_every_second_partition: "if(vec.empty()) return;"
CompactEnter ==
    /\ epc = "compact"
    /\ epc' = (IF Len(vec) = 0 THEN "done" ELSE "compact_loop")
    /\ UNCHANGED <<input, vec, idx, oob, pos, keep, method>>
    /\ PointersUnchanged

\* "read_pos+= 2"
ReadNextOne(read_pos) == read_pos + 1
ReadNext(read_pos) == read_pos + 2

\* one iteration: "read_pos < vec.size()", "if(write_pos != read_pos)
\* vec[write_pos]= std::move(vec[read_pos]);", "++write_pos;".  idx is
\* read_pos and pos is write_pos.
CompactStep ==
    /\ epc = "compact_loop"
    /\ idx < Len(vec)
    /\ vec' = IF pos # idx
                 THEN [vec EXCEPT ![pos + 1] = vec[idx + 1], ![idx + 1] = Hole]
                 ELSE vec
    /\ pos' = pos + 1
    /\ idx' = ReadNext(idx)
    /\ UNCHANGED <<input, epc, oob, keep, method>>
    /\ PointersUnchanged

\* "vec.resize(write_pos);"
CompactResize ==
    /\ epc = "compact_loop"
    /\ ~(idx < Len(vec))
    /\ vec' = Truncated(vec, pos)
    /\ epc' = "done"
    /\ UNCHANGED <<input, idx, oob, pos, keep, method>>
    /\ PointersUnchanged

NextErase ==
    \/ NaiveErase
    \/ NaiveReturn
    \/ RemoveIfStep
    \/ RemoveIfErase
    \/ IterStep
    \/ IterReturn
    \/ CopyCall
    \/ PartitionCall
    \/ PartitionErase
    \/ CompactEnter
    \/ CompactStep
    \/ CompactResize

SpecErase == InitErase /\ [][NextErase]_vars

\* C31: in erase_every_second_iterators, before each iteration index is the
\* index the element at it had in the input (the elements before it are
\* those of the even indices below index, the others are the input from
\* index on); no call of erase is outside the vector; and the function
\* returns, in their order, exactly the elements of the even indices.
C31_IteratorsKeepEvenIndices ==
    method = "iterators" =>
        /\ ~oob
        /\ epc = "iterators" =>
              /\ pos = (idx + 1) \div 2
              /\ Len(vec) = pos + Len(input) - idx
              /\ \A k \in 1..Len(vec) :
                    vec[k] = IF k <= pos THEN input[2 * k - 1] ELSE input[k - pos + idx]
        /\ epc = "done" =>
              /\ Len(vec) = (Len(input) + 1) \div 2
              /\ \A k \in 1..Len(vec) : vec[k] = input[2 * k - 1]

\* the function has returned from an input of the greatest length whose
\* neighbouring elements differ
C31_Witness ==
    /\ method = "iterators" /\ epc = "done"
    /\ Len(input) = MaxLen /\ idx = MaxLen
    /\ \A k \in 1..(MaxLen - 1) : input[k] # input[k + 1]

\* C32: every erase_every_second_* function returns, for every input, the
\* vector erase_every_second_copy returns for it, which holds the elements
\* of the even indices of the input in their order.
C32_MethodsAgree ==
    epc = "done" =>
        /\ vec = erase_every_second_copy(input)
        /\ Len(vec) = (Len(input) + 1) \div 2
        /\ \A k \in 1..Len(vec) : vec[k] = input[2 * k - 1]

\* std::stable_partition and erase have returned from an input of the
\* greatest length whose neighbouring elements differ
C32_Witness ==
    /\ method = "partition" /\ epc = "done"
    /\ Len(input) = MaxLen
    /\ \A k \in 1..(MaxLen - 1) : input[k] # input[k + 1]

\* C39: in the in-place erase_every_second_partition write_pos is at most
\* read_pos before each iteration, the element at read_pos was not moved
\* from or overwritten, and the first write_pos elements are those of the
\* even indices below read_pos; the function returns exactly the elements
\* of the even indices, ceil(n/2) of them.
C39_CompactionInPlace ==
    method = "compact" =>
        /\ epc = "compact_loop" =>
              /\ pos <= idx
              /\ idx = 2 * pos
              /\ Len(vec) = Len(input)
              /\ \A k \in 1..pos : vec[k] = input[2 * k - 1]
              /\ \A k \in (idx + 1)..Len(vec) : vec[k] = input[k]
        /\ epc = "done" =>
              /\ Len(vec) = (Len(input) + 1) \div 2
              /\ Len(input) # 0 => Len(vec) = pos
              /\ \A k \in 1..Len(vec) : vec[k] = input[2 * k - 1]

\* the function has moved elements and returned from an input of the
\* greatest length
C39_Witness ==
    /\ method = "compact" /\ epc = "done"
    /\ Len(input) = MaxLen /\ pos = (MaxLen + 1) \div 2
    /\ input[1] # input[3]

\* C33: when no thread is inside an operation and no owner and no observer of
\* a counter pair that was allocated with a payload exists, the pair has
\* been deleted.
C33_ReleasedPairIsFreed ==
    \A b \in 1..nblk :
        Quiet /\ orig[b] # NoVal /\ Owners(b) = 0 /\ Observers(b) = 0 => frees[b] >= 1

\* every owner and observer of a payload has been destroyed, and the pair was
\* deleted once
C33_Witness ==
    \E b \in 1..nblk :
        /\ Quiet /\ orig[b] # NoVal /\ Owners(b) = 0 /\ Observers(b) = 0
        /\ frees[b] = 1 /\ pdel[b] = 1 /\ ~uaf

\* C34: only the constructors, the destructor and operator= of CustomWeakPtr
\* change a weak count; no step of lock() changes one; and a step of lock()
\* that reads the strong count of a pair goes on to the exchange exactly when
\* that count is above 0, whatever the weak count is.
C34_WeakCountOnlyByObservers ==
    [][/\ \A b \in Allocated :
             weak'[b] # weak[b] => wh' # wh \/ \E t \in Threads : pc[t] = "wa_adopt"
       /\ \A t \in Threads :
             LET b == Blk(Locked(t))
             IN  LockStep(t) =>
                   /\ weak' = weak
                   /\ b # Null /\ frees[b] = 0 /\ pc[t] \in {"idle", "lk_load"} =>
                         (pc'[t] = "lk_cas" <=> ref[b] > 0)]_vars

\* lock() has read a positive strong count of a pair with two observers
C34_Witness ==
    \E t \in Threads :
        /\ pc[t] = "lk_cas"
        /\ weak[Blk(arg[t].src)] = 2 /\ ref[Blk(arg[t].src)] = 1
        /\ frees[Blk(arg[t].src)] = 0 /\ arg[t].n = 1

\* C35: the owner CustomSharedPtr<int>() makes, and the owner a lock() that
\* finds no counters or a strong count of 0 returns, has no payload and has
\* a newly allocated counter pair that no observer has, with strong count 1
\* and weak count 0, and use_count() 1; the destructor of an owner without
\* payload changes no counter and deletes nothing.
C35_EmptyOwnerHasOwnPair ==
    [][\A i, j \in Locals :
        LET made == loc'[i].k
            k == loc[j].k
        IN  /\ \/ op' = <<"ctor", i, 0>> /\ ~HasPayload(made)
               \/ /\ op' = <<"lock", i, j>>
                  /\ Blk(k) = Null \/ ref[Blk(k)] = 0
               => /\ IsShared(i)' /\ ~HasPayload(made)
                  /\ Blk(made) = nblk + 1 /\ nblk' = nblk + 1
                  /\ ref'[Blk(made)] = 1 /\ weak'[Blk(made)] = 0
                  /\ \A x \in Locals : IsWeak(x)' => Blk(loc'[x].k) # Blk(made)
                  /\ \A x \in Locals \ {i} : loc'[x] = loc[x]
            /\ op'[1] = "dtor" /\ op'[2] = j /\ IsShared(j) /\ ~HasPayload(k) =>
                  UNCHANGED <<ref, weak, frees, pdel>>]_vars

\* a lock() that found a strong count of 0 has returned an owner without
\* payload, whose counters are new
C35_Witness ==
    \E i, j \in Locals :
        /\ op = <<"lock", i, j>>
        /\ IsWeak(j) /\ HasPayload(loc[j].k) /\ ref[Blk(loc[j].k)] = 0
        /\ IsShared(i) /\ ~HasPayload(loc[i].k) /\ Blk(loc[i].k) = nblk
        /\ use_count(loc[i].k) = {1} /\ weak[nblk] = 0

\* Thread t is inside a = b with a and b two owners that have the counter
\* pair b, which is not deleted.
CoAssign(t, b) ==
    /\ pc[t] \in SAssignPcs
    /\ b # Null /\ Blk(arg[t].h) = b /\ Blk(arg[t].src) = b
    /\ frees[b] = 0

\* C36: a = b on two owners of one counter pair decrements the strong count
\* to a value that is not 0, deletes neither the payload nor the pair, and
\* increments the strong count again: the count is never 0 in between.
C36_AssignBetweenCoOwners ==
    /\ [](\A t \in Threads, b \in Allocated :
             CoAssign(t, b) => pc[t] = "sa_adopt" /\ ref[b] >= 1)
    /\ [][\A t \in Threads, b \in Allocated :
             /\ Idle(t) /\ CoAssign(t, b)' =>
                   ref'[b] = ref[b] - 1 /\ UNCHANGED <<pdel, frees>>
             /\ CoAssign(t, b) /\ Idle(t)' =>
                   ref'[b] = ref[b] + 1 /\ UNCHANGED <<pdel, frees>>]_vars

\* a = b is between its decrement and its increment, a and b being the only
\* owners of a payload
C36_Witness ==
    \E t \in Threads, b \in Allocated :
        /\ CoAssign(t, b) /\ pc[t] = "sa_adopt"
        /\ arg[t].src = <<b, b>> /\ sh[<<b, b>>] = 1 /\ ref[b] = 1 /\ pdel[b] = 0

\* C37: w = v on observers of different counter pairs decrements the weak
\* count of w's old pair by one, deletes that pair exactly when the count
\* became 0 and its strong count is 0, and gives w the fields of v with v's
\* weak count one higher; no strong count and no payload changes.  And
\* "weak= CustomWeakPtr<int>(shared);" on a default-constructed weak leaves
\* the weak count 1 when the temporary object is destroyed.
C37_WeakCopyAssign ==
    [][/\ \A i, j \in Locals :
            LET w == loc[i].k
                v == loc[j].k
            IN  op' = <<"weak_assign", i, j>>
                /\ Blk(w) # Null /\ Blk(v) # Null /\ Blk(w) # Blk(v) =>
                  /\ weak'[Blk(w)] = weak[Blk(w)] - 1
                  /\ frees'[Blk(w)] = frees[Blk(w)]
                        + (IF weak'[Blk(w)] = 0 /\ ref[Blk(w)] = 0 THEN 1 ELSE 0)
                  /\ loc'[i] = Weak(v)
                  /\ weak'[Blk(v)] = weak[Blk(v)] + 1
                  /\ frees'[Blk(v)] = frees[Blk(v)]
                  /\ UNCHANGED <<ref, pdel>>
       /\ Demo(Shared(<<1, 1>>), Weak(Empty), NoObj, 1, 0, 0)
          /\ op' = <<"weak_ctor", 3, 1>> =>
             Demo(Shared(<<1, 1>>), Weak(Empty), Weak(<<1, 1>>), 1, 1, 0)'
       /\ Demo(Shared(<<1, 1>>), Weak(Empty), Weak(<<1, 1>>), 1, 1, 0)
          /\ op' = <<"weak_assign", 2, 3>> =>
             Demo(Shared(<<1, 1>>), Weak(<<1, 1>>), Weak(<<1, 1>>), 1, 2, 0)'
       /\ Demo(Shared(<<1, 1>>), Weak(<<1, 1>>), Weak(<<1, 1>>), 1, 2, 0)
          /\ op' = <<"weak_dtor", 3, 1>> =>
             Demo(Shared(<<1, 1>>), Weak(<<1, 1>>), NoObj, 1, 1, 0)']_vars

\* w = v has deleted the counters of w's old pair, whose payload was gone
C37_Witness ==
    \E i, j \in Locals, x, b \in Allocated :
        /\ op = <<"weak_assign", i, j>>
        /\ x # b /\ loc[i] = Weak(<<b, b>>) /\ loc[j] = Weak(<<b, b>>)
        /\ weak[b] = 2 /\ ref[b] = 1
        /\ frees[x] = 1 /\ pdel[x] = 1 /\ ref[x] = 0 /\ weak[x] = 0

\* ---------------------------------------------------------------------------
\* benchmark_weak_ptr_lock(iterations, thread_count) of task1 and of the
\* examples, and BenchmarkRunner::run_multithreaded(config, func) with the
\* same lifecycle as func.
\* ---------------------------------------------------------------------------
Impls == {"task1", "examples", "runner"}

\* "int iterations_per_thread= iterations / thread_count;" (task1): every
\* thread captures the same count.
iterations_per_thread(n, c) == n \div c
\* "base_iterations + (t < remainder ? 1 : 0)" (examples) and
\* "iterations_per_thread + (t < extra_iterations ? 1 : 0)" (runner), t from 0
remainder(n, c) == n % c
thread_iterations(n, c, t) == (n \div c) + (IF t < remainder(n, c) THEN 1 ELSE 0)

\* The count the thread created at loop index t (from 0) captures.
Captured(f, n, c, t) ==
    IF f = "task1" THEN iterations_per_thread(n, c) ELSE thread_iterations(n, c, t)

\* The function is called: "auto start= ...now();"
InitBench ==
    /\ NoPointers
    /\ NoErase
    /\ NoServer
    /\ impl \in Impls
    /\ iterations \in 0..MaxIterations
    /\ thread_count \in 1..MaxThreadCount
    /\ bpc = "start"
    /\ spawned = 0 /\ joined = 0
    /\ quota = [t \in Workers |-> 0]
    /\ done = [t \in Workers |-> 0]
    /\ stage = [t \in Workers |-> "none"]

BenchFrame ==
    UNCHANGED <<heap, sh, wh, pc, arg, iter, loc, op, task2,
                impl, iterations, thread_count, server>>

\* "if(thread_count == 1)": the caller runs the loop itself, bounded by
\* iterations; run_multithreaded has no such branch.
SingleThreaded == impl # "runner" /\ thread_count = 1

BenchEnter ==
    /\ bpc = "start"
    /\ IF SingleThreaded
       THEN /\ bpc' = "single"
            /\ quota' = [quota EXCEPT ![1] = iterations]
       ELSE /\ bpc' = "spawn"
            /\ UNCHANGED quota
    /\ UNCHANGED <<spawned, joined, done, stage>>
    /\ BenchFrame

\* "for(int t= 0; t < thread_count; ++t) threads.emplace_back(...)"
Spawn ==
    /\ bpc = "spawn"
    /\ spawned < thread_count
    /\ quota' = [quota EXCEPT ![spawned + 1] =
                     Captured(impl, iterations, thread_count, spawned)]
    /\ spawned' = spawned + 1
    /\ UNCHANGED <<bpc, joined, done, stage>>
    /\ BenchFrame

SpawnExit ==
    /\ bpc = "spawn"
    /\ ~(spawned < thread_count)
    /\ bpc' = "join"
    /\ UNCHANGED <<spawned, joined, quota, done, stage>>
    /\ BenchFrame

\* The loop of worker t runs: in the caller (single-threaded) or in the
\* thread created at index t - 1.
Runs(t) == IF bpc = "single" THEN t = 1 ELSE t <= spawned
Finished(t) == done[t] = quota[t] /\ stage[t] = "none"

\* "CustomSharedPtr<int> shared(new int(i));" under "i < thread_iterations"
Construct(t) ==
    /\ Runs(t)
    /\ stage[t] = "none"
    /\ done[t] < quota[t]
    /\ stage' = [stage EXCEPT ![t] = "shared"]
    /\ UNCHANGED <<bpc, spawned, joined, quota, done>>
    /\ BenchFrame

\* "CustomWeakPtr<int> weak(shared);"
Observe(t) ==
    /\ Runs(t)
    /\ stage[t] = "shared"
    /\ stage' = [stage EXCEPT ![t] = "weak"]
    /\ UNCHANGED <<bpc, spawned, joined, quota, done>>
    /\ BenchFrame

\* "auto locked= weak.lock();"
LockIt(t) ==
    /\ Runs(t)
    /\ stage[t] = "weak"
    /\ stage' = [stage EXCEPT ![t] = "locked"]
    /\ UNCHANGED <<bpc, spawned, joined, quota, done>>
    /\ BenchFrame

\* The end of the loop body destroys locked, weak and shared; "++i"
EndBody(t) ==
    /\ Runs(t)
    /\ stage[t] = "locked"
    /\ stage' = [stage EXCEPT ![t] = "none"]
    /\ done' = [done EXCEPT ![t] = @ + 1]
    /\ UNCHANGED <<bpc, spawned, joined, quota>>
    /\ BenchFrame

\* "for(auto& thread: threads) thread.join();": join returns when the
\* thread's function has returned.
Join ==
    /\ bpc = "join"
    /\ joined < thread_count
    /\ Finished(joined + 1)
    /\ joined' = joined + 1
    /\ UNCHANGED <<bpc, spawned, quota, done, stage>>
    /\ BenchFrame

\* "auto end= ...now();" after the loop of the caller or after the join loop
BenchEnd ==
    /\ \/ bpc = "single" /\ Finished(1)
       \/ bpc = "join" /\ joined = thread_count
    /\ bpc' = "end"
    /\ UNCHANGED <<spawned, joined, quota, done, stage>>
    /\ BenchFrame

NextBench ==
    \/ BenchEnter
    \/ Spawn
    \/ SpawnExit
    \/ \E t \in Workers : Construct(t)
    \/ \E t \in Workers : Observe(t)
    \/ \E t \in Workers : LockIt(t)
    \/ \E t \in Workers : EndBody(t)
    \/ Join
    \/ BenchEnd

SpecBench == InitBench /\ [][NextBench]_vars

\* The lifecycle sequences executed so far.
Executed == SumOver(done, Workers)

\* C38: when the elapsed time is taken, the function has executed exactly
\* `iterations` construct-observe-lock sequences (the per-thread counts sum
\* to iterations, also when thread_count does not divide iterations), and
\* every worker has finished.
C38_ExecutesIterations ==
    bpc = "end" =>
        /\ Executed = iterations
        /\ SumOver(quota, Workers) = iterations
        /\ \A t \in Workers : Finished(t)


\* ---------------------------------------------------------------------------
\* The HTTP dispatcher: Session::get_param_size and the three /benchmark/
\* branches of Session::process_request.
\* ---------------------------------------------------------------------------
kOk == 200
kBadRequest == 400
kMaxThreads == 64
kDefaultTask1Iterations == 1000000
kMaxTask1Iterations == 100000000
kDefaultVectorSize == 100000
kMaxVectorSize == 10000000
kDefaultVectorIterations == 100
kMaxVectorIterations == 10000
kDefaultMappingSize == 100000
kMaxMappingSize == 10000000
kDefaultLookups == 1000000
kMaxLookups == 100000000

Endpoints == {"task1", "task2", "task3"}

\* The parameters each branch reads with get_param_size.
Takes(e) ==
    IF e = "task1" THEN {"iterations", "threads"}
    ELSE IF e = "task2" THEN {"size", "iterations", "threads"}
    ELSE {"size", "lookups"}

default_value(e, key) ==
    IF key = "threads" THEN 1
    ELSE IF e = "task1" THEN kDefaultTask1Iterations
    ELSE IF e = "task2"
    THEN (IF key = "size" THEN kDefaultVectorSize ELSE kDefaultVectorIterations)
    ELSE (IF key = "size" THEN kDefaultMappingSize ELSE kDefaultLookups)

max_value(e, key) ==
    IF key = "threads" THEN kMaxThreads
    ELSE IF e = "task1" THEN kMaxTask1Iterations
    ELSE IF e = "task2"
    THEN (IF key = "size" THEN kMaxVectorSize ELSE kMaxVectorIterations)
    ELSE (IF key = "size" THEN kMaxMappingSize ELSE kMaxLookups)

\* The benchmark functions a branch calls, each followed later by one
\* save_result: 1 (task1), 5 methods (task2), 3 containers (task3).
Calls(e) == IF e = "task1" THEN 1 ELSE IF e = "task2" THEN 5 ELSE 3

\* A parameter's text is a sequence of characters.
Digit == <<"0", "1", "2", "3", "4", "5", "6", "7", "8", "9">>
IsDigit(c) == \E d \in 1..10 : Digit[d] = c
DigitVal(c) == (CHOOSE d \in 1..10 : Digit[d] = c) - 1

\* std::stoll(text): an optional sign, then the longest run of decimal
\* digits; what follows the digits is ignored.  It throws invalid_argument
\* when there is no digit and out_of_range when the number does not fit a
\* long long.  (No whitespace can occur in a URL read with operator>>.)
RECURSIVE DigitPrefix(_)
DigitPrefix(s) ==
    IF s = <<>> \/ ~IsDigit(Head(s)) THEN <<>>
    ELSE <<Head(s)>> \o DigitPrefix(Tail(s))

RECURSIVE StripZeros(_)
StripZeros(s) == IF s # <<>> /\ Head(s) = "0" THEN StripZeros(Tail(s)) ELSE s

\* a > b for digit sequences of the same length
RECURSIVE Greater(_, _)
Greater(a, b) ==
    IF a = <<>> THEN FALSE
    ELSE IF Head(a) # Head(b) THEN DigitVal(Head(a)) > DigitVal(Head(b))
    ELSE Greater(Tail(a), Tail(b))

Over(m, lim) == Len(m) > Len(lim) \/ (Len(m) = Len(lim) /\ Greater(m, lim))

\* LLONG_MAX and the magnitude of LLONG_MIN
LLongMax == <<"9", "2", "2", "3", "3", "7", "2", "0", "3", "6", "8", "5", "4",
              "7", "7", "5", "8", "0", "7">>
LLongMin == <<"9", "2", "2", "3", "3", "7", "2", "0", "3", "6", "8", "5", "4",
              "7", "7", "5", "8", "0", "8">>

RECURSIVE Value(_)
Value(m) ==
    IF m = <<>> THEN 0
    ELSE 10 * Value(SubSeq(m, 1, Len(m) - 1)) + DigitVal(m[Len(m)])

\* A long long of ten digits or more is only ever compared with 0 and with
\* limits below Huge, so it is kept as Huge.
Huge == 1000000000

stoll(s) ==
    LET signed == s # <<>> /\ Head(s) \in {"-", "+"}
        neg == s # <<>> /\ Head(s) = "-"
        ds == DigitPrefix(IF signed THEN Tail(s) ELSE s)
        m == StripZeros(ds)
        v == IF Len(m) > 9 THEN Huge ELSE Value(m)
    IN  IF ds = <<>> \/ Over(m, IF neg THEN LLongMin ELSE LLongMax)
        THEN [thrown |-> TRUE, val |-> 0]
        ELSE [thrown |-> FALSE, val |-> IF neg THEN 0 - v ELSE v]

\* "if(val <= 0)" and "if(static_cast<unsigned long long>(val) > max_value)"
ExceedsNever(val, max) == FALSE
NonPositive(val) == val <= 0
Exceeds(val, max) == val > max

get_param_size(ps, key, default, max) ==
    IF ps[key] # Absent
    THEN LET r == stoll(ps[key])
         IN  IF r.thrown THEN 0
             ELSE IF NonPositive(r.val) THEN 0
             ELSE IF Exceeds(r.val, max) THEN 0
             ELSE r.val
    ELSE default

\* The texts a request may carry: every text of at most MaxText characters
\* of Chars, and the decimal texts of each limit, of each limit plus one and
\* of the two numbers around the end of long long.
Chars == {"-", "0", "7", "a"}
RECURSIVE Decimal(_)
Decimal(n) ==
    IF n < 10 THEN <<Digit[n + 1]>>
    ELSE Decimal(n \div 10) \o <<Digit[(n % 10) + 1]>>
Limits == {kMaxThreads, kMaxTask1Iterations, kMaxVectorSize, kMaxVectorIterations,
           kMaxMappingSize, kMaxLookups}
Texts ==
    UNION {[1..n -> Chars] : n \in 0..MaxText}
        \cup {Decimal(m) : m \in Limits} \cup {Decimal(m + 1) : m \in Limits}
        \cup {LLongMax, LLongMin}

\* The maps parse_query returns for queries of at most two parameters.
Queries ==
    {[k \in Keys |-> IF k = k1 THEN t1 ELSE IF k = k2 THEN t2 ELSE Absent] :
        k1 \in Keys, k2 \in Keys, t1 \in Texts \cup {Absent}, t2 \in Texts \cup {Absent}}

\* A request for one of the three routes has been read: "auto params=
\* parse_query(url);"
InitServer ==
    /\ NoPointers
    /\ NoErase
    /\ NoBench
    /\ endpoint \in Endpoints
    /\ params \in Queries
    /\ spc = "recv"
    /\ local = [k \in Keys |-> 0]
    /\ status = 0 /\ runs = 0 /\ saves = 0

ServerFrame ==
    UNCHANGED <<heap, sh, wh, pc, arg, iter, loc, op, task2, bench, endpoint, params>>

\* The calls of get_param_size at the head of the branch
ReadParams ==
    /\ spc = "recv"
    /\ local' = [k \in Keys |->
                    IF k \in Takes(endpoint)
                    THEN get_param_size(params, k, default_value(endpoint, k),
                                        max_value(endpoint, k))
                    ELSE 0]
    /\ spc' = "read"
    /\ UNCHANGED <<status, runs, saves>>
    /\ ServerFrame

\* "if(iterations == 0) return json_error(http_status::kBadRequest, ...)"
\* and the same test of the branch's other parameters
Reject ==
    /\ spc = "read"
    /\ \E k \in Takes(endpoint) : local[k] = 0
    /\ status' = kBadRequest
    /\ spc' = "sent"
    /\ UNCHANGED <<local, runs, saves>>
    /\ ServerFrame

\* One call of a benchmark function, all tests having passed
RunBenchmark ==
    /\ spc = "read"
    /\ \A k \in Takes(endpoint) : local[k] # 0
    /\ runs < Calls(endpoint)
    /\ runs' = runs + 1
    /\ UNCHANGED <<spc, local, status, saves>>
    /\ ServerFrame

\* One call of get_db_client().save_result(...), after the benchmarks
SaveResult ==
    /\ spc = "read"
    /\ runs = Calls(endpoint)
    /\ saves < Calls(endpoint)
    /\ saves' = saves + 1
    /\ UNCHANGED <<spc, local, status, runs>>
    /\ ServerFrame

\* "return json_response(http_status::kOk, json.str());"
Respond ==
    /\ spc = "read"
    /\ runs = Calls(endpoint)
    /\ saves = Calls(endpoint)
    /\ status' = kOk
    /\ spc' = "sent"
    /\ UNCHANGED <<local, runs, saves>>
    /\ ServerFrame

NextServer ==
    \/ ReadParams
    \/ Reject
    \/ RunBenchmark
    \/ SaveResult
    \/ Respond

SpecServer == InitServer /\ [][NextServer]_vars

\* The parameter key of the request is present and its value is refused:
\* parsing fails, or the value is <= 0 or above the parameter's maximum.
Refused(key) ==
    /\ params[key] # Absent
    /\ \/ stoll(params[key]).thrown
       \/ stoll(params[key]).val <= 0
       \/ stoll(params[key]).val > max_value(endpoint, key)

\* C40: for each of the three routes, when a size parameter the route reads
\* is present with a value that is <= 0, above its maximum, or that does not
\* parse, no benchmark is run, no result is saved and the response is 400;
\* a parameter that is absent takes its default, and a request whose
\* parameters are all absent or acceptable is answered 200 after running
\* and saving.
C40_RequestValidation ==
    /\ (\E k \in Takes(endpoint) : Refused(k)) =>
           /\ runs = 0 /\ saves = 0
           /\ status # kOk
           /\ spc = "sent" => status = kBadRequest
    /\ \A k \in Takes(endpoint) :
           (spc \in {"read", "sent"} /\ params[k] = Absent) =>
               local[k] = default_value(endpoint, k)
    /\ (spc = "sent" /\ \A k \in Takes(endpoint) : ~Refused(k)) =>
           /\ status = kOk
           /\ runs = Calls(endpoint) /\ saves = Calls(endpoint)

\* /benchmark/task2?threads=65 has been answered 400: threads is one above
\* kMaxThreads, size and iterations are absent and took their defaults.
C40_Witness ==
    /\ endpoint = "task2" /\ spc = "sent" /\ status = kBadRequest
    /\ params["threads"] = Decimal(kMaxThreads + 1)
    /\ params["size"] = Absent /\ params["iterations"] = Absent
    /\ local["size"] = kDefaultVectorSize /\ local["threads"] = 0
    /\ runs = 0 /\ saves = 0

====
